---- MODULE Spec2Model ----
(***************************************************************************)
(* Taskdown backend: the task / checklist / relationship storage of        *)
(* backend/src/database.rs and the task handlers of backend/src/handlers.rs *)
(* as a state machine over the four task tables.                            *)
(*                                                                          *)
(* Every SQL statement is executed on its own (the code opens no            *)
(* transaction), with SQLite's PRIMARY KEY / UNIQUE constraints and, as     *)
(* sqlx enables them on every connection, its FOREIGN KEY constraints and   *)
(* ON DELETE CASCADE actions.                                               *)
(***************************************************************************)
EXTENDS Integers, Sequences, FiniteSets, TLC

\* ---------------------------------------------------------------- bounds
\* number of task identifiers create_task may issue
MaxTasks == 2
\* number of readings of the clock (Utc::now) by create_task / update_task
MaxClock == 3

VARIABLES
    tasks,              \* table tasks: id -> row
    checklist_items,    \* table checklist_items: set of rows
    task_dependencies,  \* table task_dependencies: set of (task_id, related_id)
    task_blocks,        \* table task_blocks: set of (task_id, related_id)
    uuids,              \* uuid::Uuid::new_v4 so far: [task |-> n, item |-> n]
    clock,              \* the last reading of Utc::now()
    last,               \* the last request served and what it returned
    pre,                \* the tables as they were before that request
    workspace_config,   \* table workspace_config: id -> row
    config_updated,     \* whether a configuration update has been served
    auth,               \* the session token a client holds, as it was issued
    running             \* the calls in progress, statement by statement

vars == <<tasks, checklist_items, task_dependencies, task_blocks, uuids, clock, last, pre,
          workspace_config, config_updated, auth, running>>

\* ------------------------------------------------------------ Option<T>
None == <<>>
Some(x) == <<x>>
IsSome(o) == o # <<>>
Unwrap(o) == o[1]

\* ---------------------------------------------------------------- enums
TaskTypes == {"TaskType::Epic", "TaskType::Story", "TaskType::Task", "TaskType::Bug"}
Priorities == {"Priority::Critical", "Priority::High", "Priority::Medium", "Priority::Low"}
TaskStatuses == {"TaskStatus::Todo", "TaskStatus::InProgress", "TaskStatus::InReview", "TaskStatus::Done"}

\* the Debug name replaced by the serde name where a variant is renamed
DebugFmt_SerdeNames(v) ==
    CASE v = "TaskType::Epic" -> "Epic"
      [] v = "TaskType::Story" -> "Story"
      [] v = "TaskType::Task" -> "Task"
      [] v = "TaskType::Bug" -> "Bug"
      [] v = "Priority::Critical" -> "Critical"
      [] v = "Priority::High" -> "High"
      [] v = "Priority::Medium" -> "Medium"
      [] v = "Priority::Low" -> "Low"
      [] v = "TaskStatus::Todo" -> "Todo"
      [] v = "TaskStatus::InProgress" -> "In Progress"
      [] v = "TaskStatus::InReview" -> "In Review"
      [] v = "TaskStatus::Done" -> "Done"

\* format!("{:?}", v) of a derive(Debug) enum: the bare variant name
DebugFmt(v) ==
    CASE v = "TaskType::Epic" -> "Epic"
      [] v = "TaskType::Story" -> "Story"
      [] v = "TaskType::Task" -> "Task"
      [] v = "TaskType::Bug" -> "Bug"
      [] v = "Priority::Critical" -> "Critical"
      [] v = "Priority::High" -> "High"
      [] v = "Priority::Medium" -> "Medium"
      [] v = "Priority::Low" -> "Low"
      [] v = "TaskStatus::Todo" -> "Todo"
      [] v = "TaskStatus::InProgress" -> "InProgress"
      [] v = "TaskStatus::InReview" -> "InReview"
      [] v = "TaskStatus::Done" -> "Done"

\* DateTime<Utc>::to_rfc3339 and DateTime::parse_from_rfc3339: an instant t is
\* stored as the text <<"rfc3339", t>>
to_rfc3339(t) == <<"rfc3339", t>>
parse_from_rfc3339(s) == s[2]

\* --------------------------------------------------------------- storage
DB == [tasks |-> tasks, checklist_items |-> checklist_items,
       task_dependencies |-> task_dependencies, task_blocks |-> task_blocks,
       workspace_config |-> workspace_config]

\* the tables right after their CREATE TABLE statements
EmptyDB == [tasks |-> <<>>, checklist_items |-> {},
            task_dependencies |-> {}, task_blocks |-> {},
            workspace_config |-> <<>>]

\* a function without one argument of its domain
Without(f, k) == [x \in (DOMAIN f) \ {k} |-> f[x]]

\* TaskFromRow matching the serde names of TaskStatus ("In Progress") where the
\* column holds the Debug names
TaskFromRow_SerdeNames(id, row) ==
    [id |-> id,
     title |-> row.title,
     type |-> CASE row.task_type = "Epic" -> "TaskType::Epic"
                [] row.task_type = "Story" -> "TaskType::Story"
                [] row.task_type = "Bug" -> "TaskType::Bug"
                [] OTHER -> "TaskType::Task",
     priority |-> CASE row.priority = "Critical" -> "Priority::Critical"
                    [] row.priority = "High" -> "Priority::High"
                    [] row.priority = "Low" -> "Priority::Low"
                    [] OTHER -> "Priority::Medium",
     status |-> CASE row.status = "Todo" -> "TaskStatus::Todo"
                  [] row.status = "In Progress" -> "TaskStatus::InProgress"
                  [] row.status = "In Review" -> "TaskStatus::InReview"
                  [] OTHER -> "TaskStatus::Done",
     story_points |-> row.story_points,
     sprint |-> row.sprint,
     epic |-> row.epic,
     description |-> row.description,
     acceptance_criteria |-> <<>>,
     technical_tasks |-> <<>>,
     dependencies |-> {},
     blocks |-> {},
     assignee |-> row.assignee,
     is_favorite |-> row.is_favorite,
     thumbnail |-> row.thumbnail,
     created_at |-> parse_from_rfc3339(row.created_at),
     updated_at |-> parse_from_rfc3339(row.updated_at)]

\* impl From<TaskRow> for Task, the four child collections still empty
TaskFromRow(id, row) ==
    [id |-> id,
     title |-> row.title,
     type |-> CASE row.task_type = "Epic" -> "TaskType::Epic"
                [] row.task_type = "Story" -> "TaskType::Story"
                [] row.task_type = "Bug" -> "TaskType::Bug"
                [] OTHER -> "TaskType::Task",
     priority |-> CASE row.priority = "Critical" -> "Priority::Critical"
                    [] row.priority = "High" -> "Priority::High"
                    [] row.priority = "Low" -> "Priority::Low"
                    [] OTHER -> "Priority::Medium",
     status |-> CASE row.status = "Todo" -> "TaskStatus::Todo"
                  [] row.status = "InProgress" -> "TaskStatus::InProgress"
                  [] row.status = "InReview" -> "TaskStatus::InReview"
                  [] OTHER -> "TaskStatus::Done",
     story_points |-> row.story_points,
     sprint |-> row.sprint,
     epic |-> row.epic,
     description |-> row.description,
     acceptance_criteria |-> <<>>,
     technical_tasks |-> <<>>,
     dependencies |-> {},
     blocks |-> {},
     assignee |-> row.assignee,
     is_favorite |-> row.is_favorite,
     thumbnail |-> row.thumbnail,
     created_at |-> parse_from_rfc3339(row.created_at),
     updated_at |-> parse_from_rfc3339(row.updated_at)]

\* the rows of S as a sequence in ascending sort_order (ORDER BY sort_order)
OrderBySortOrder(S) ==
    LET n == Cardinality(S)
    IN CHOOSE s \in [1..n -> S] :
          /\ \A i, j \in 1..n : i # j => s[i] # s[j]
          /\ \A i, j \in 1..n : i < j => s[i].sort_order <= s[j].sort_order

\* get_checklist_items with ORDER BY sort_order DESC
get_checklist_items_Descending(db, task_id, item_type) ==
    LET rows == {r \in db.checklist_items : r.task_id = task_id /\ r.item_type = item_type}
        n == Cardinality(rows)
        ordered == OrderBySortOrder(rows)
    IN [i \in 1..n |-> [id |-> Some(ordered[n + 1 - i].id),
                        text |-> ordered[n + 1 - i].text,
                        completed |-> ordered[n + 1 - i].completed]]

\* get_checklist_items: SELECT id, text, completed ... WHERE task_id = ? AND
\* item_type = ? ORDER BY sort_order
get_checklist_items(db, task_id, item_type) ==
    LET rows == {r \in db.checklist_items : r.task_id = task_id /\ r.item_type = item_type}
        ordered == OrderBySortOrder(rows)
    IN [i \in 1..Cardinality(rows) |-> [id |-> Some(ordered[i].id),
                                        text |-> ordered[i].text,
                                        completed |-> ordered[i].completed]]

\* get_task_relationships: SELECT <column> FROM <table> WHERE task_id = ?
\* (no ORDER BY: the Vec is the set of related ids in an unspecified order)
get_task_relationships(db, task_id, table_name) ==
    {e.related_id : e \in {x \in db[table_name] : x.task_id = task_id}}

\* get_task_by_id: the row and its four child collections, or None
get_task_by_id(db, task_id) ==
    IF task_id \in DOMAIN db.tasks
    THEN Some([TaskFromRow(task_id, db.tasks[task_id]) EXCEPT
                 !.acceptance_criteria = get_checklist_items(db, task_id, "acceptance_criteria"),
                 !.technical_tasks = get_checklist_items(db, task_id, "technical_tasks"),
                 !.dependencies = get_task_relationships(db, task_id, "task_dependencies"),
                 !.blocks = get_task_relationships(db, task_id, "task_blocks")])
    ELSE None

\* the INSERT loop of save_checklist_items from item i on: every INSERT is its
\* own statement, so the first one that violates PRIMARY KEY (id) or the
\* FOREIGN KEY on task_id ends the loop with the earlier rows kept
RECURSIVE InsertChecklistItems(_, _, _, _, _, _)
InsertChecklistItems(db, n_item, task_id, items, item_type, i) ==
    IF i > Len(items)
    THEN [db |-> db, n_item |-> n_item, ok |-> TRUE]
    ELSE LET item == items[i]
             fresh == item.id = None
             n2 == IF fresh THEN n_item + 1 ELSE n_item
             id == IF fresh THEN <<"uuid", n2>> ELSE Unwrap(item.id)
             row == [id |-> id, task_id |-> task_id, item_type |-> item_type,
                     text |-> item.text, completed |-> item.completed,
                     sort_order |-> i - 1]
             accepted == /\ \A r \in db.checklist_items : r.id # id
                         /\ task_id \in DOMAIN db.tasks
         IN IF accepted
            THEN InsertChecklistItems([db EXCEPT !.checklist_items = @ \cup {row}],
                                      n2, task_id, items, item_type, i + 1)
            ELSE [db |-> db, n_item |-> n2, ok |-> FALSE]

\* save_checklist_items whose DELETE leaves out the item_type condition
save_checklist_items_DeleteBothTypes(db, n_item, task_id, items, item_type) ==
    InsertChecklistItems(
        [db EXCEPT !.checklist_items = {r \in @ : r.task_id # task_id}],
        n_item, task_id, items, item_type, 1)

\* save_checklist_items: DELETE the task's items of that type, then INSERT
save_checklist_items(db, n_item, task_id, items, item_type) ==
    InsertChecklistItems(
        [db EXCEPT !.checklist_items =
            {r \in @ : ~(r.task_id = task_id /\ r.item_type = item_type)}],
        n_item, task_id, items, item_type, 1)

\* the INSERT loop of save_task_relationships from related id i on: FOREIGN
\* KEY on both columns and UNIQUE(task_id, related id)
RECURSIVE InsertRelationships(_, _, _, _, _)

\* the INSERT loop of save_task_relationships with no FOREIGN KEY in force
InsertRelationships_NoForeignKey(db, task_id, related_ids, table_name, i) ==
    IF i > Len(related_ids)
    THEN [db |-> db, ok |-> TRUE]
    ELSE LET edge == [task_id |-> task_id, related_id |-> related_ids[i]]
         IN IF edge \notin db[table_name]
            THEN InsertRelationships([db EXCEPT ![table_name] = @ \cup {edge}],
                                     task_id, related_ids, table_name, i + 1)
            ELSE [db |-> db, ok |-> FALSE]

InsertRelationships(db, task_id, related_ids, table_name, i) ==
    IF i > Len(related_ids)
    THEN [db |-> db, ok |-> TRUE]
    ELSE LET edge == [task_id |-> task_id, related_id |-> related_ids[i]]
             accepted == /\ edge \notin db[table_name]
                         /\ task_id \in DOMAIN db.tasks
                         /\ related_ids[i] \in DOMAIN db.tasks
         IN IF accepted
            THEN InsertRelationships([db EXCEPT ![table_name] = @ \cup {edge}],
                                     task_id, related_ids, table_name, i + 1)
            ELSE [db |-> db, ok |-> FALSE]

\* save_task_relationships: DELETE FROM <table> WHERE task_id = ?, then INSERT
save_task_relationships(db, task_id, related_ids, table_name) ==
    InsertRelationships(
        [db EXCEPT ![table_name] = {e \in @ : e.task_id # task_id}],
        task_id, related_ids, table_name, 1)

\* sqlx reports a failed statement as Err; `?` returns it from the function
Ok(v) == [status |-> "Ok", value |-> v]
Err == [status |-> "Err"]
Panicked == [status |-> "Panic"]
Unit == "()"

\* the values create_task binds to its INSERT INTO tasks
NewTaskRow(request, now) ==
    [title |-> request.title,
     task_type |-> DebugFmt(request.type),
     priority |-> DebugFmt(request.priority),
     status |-> DebugFmt(request.status),
     story_points |-> request.story_points,
     sprint |-> request.sprint,
     epic |-> request.epic,
     description |-> request.description,
     assignee |-> request.assignee,
     is_favorite |-> Some(IF IsSome(request.is_favorite)
                          THEN Unwrap(request.is_favorite) ELSE FALSE),
     thumbnail |-> request.thumbnail,
     created_at |-> to_rfc3339(now),
     updated_at |-> to_rfc3339(now)]

\* create_task: INSERT INTO tasks with a fresh id and created_at = updated_at
\* = now, then the two checklists and the two relationship lists, each `?`
\* returning at the first failed statement, then the re-read of the task
create_task(db, ctr, request, now) ==
    LET id == ctr.task + 1
        row == NewTaskRow(request, now)
        db0 == [db EXCEPT !.tasks = (id :> row) @@ @]
        s1 == save_checklist_items(db0, ctr.item, id, request.acceptance_criteria,
                                   "acceptance_criteria")
        s2 == IF s1.ok
              THEN save_checklist_items(s1.db, s1.n_item, id, request.technical_tasks,
                                        "technical_tasks")
              ELSE s1
        s3 == IF s2.ok
              THEN save_task_relationships(s2.db, id, request.dependencies,
                                           "task_dependencies")
              ELSE [db |-> s2.db, ok |-> FALSE]
        s4 == IF s3.ok
              THEN save_task_relationships(s3.db, id, request.blocks, "task_blocks")
              ELSE s3
        read == get_task_by_id(s4.db, id)
    IN [db |-> s4.db,
        ctr |-> [task |-> id, item |-> s2.n_item],
        id |-> id,
        result |-> IF ~s4.ok THEN Err
                   ELSE IF read = None THEN Panicked
                   ELSE Ok(Unwrap(read))]

\* update_task that returns before the UPDATE when the request names no column
update_task_SkipWhenEmpty(db, task_id, request, now) ==
    IF /\ request.title = None /\ request.type = None /\ request.priority = None
       /\ request.status = None /\ request.story_points = None
       /\ request.description = None
    THEN [db |-> db, result |-> Ok(Unit)]
    ELSE [db |-> [db EXCEPT !.tasks =
                    [i \in DOMAIN @ |->
                        IF i = task_id THEN [@[i] EXCEPT !.updated_at = to_rfc3339(now)]
                        ELSE @[i]]],
          result |-> Ok(Unit)]

\* update_task written as a full replace: an omitted description is stored as
\* the empty string and omitted checklists are saved as empty lists
update_task_FullReplace(db, task_id, request, now) ==
    [db |-> [db EXCEPT !.tasks =
                [i \in DOMAIN @ |->
                    IF i = task_id
                    THEN [@[i] EXCEPT !.updated_at = to_rfc3339(now),
                                      !.description = IF IsSome(request.description)
                                                      THEN Unwrap(request.description)
                                                      ELSE ""]
                    ELSE @[i]],
             !.checklist_items =
                IF request.acceptance_criteria = None
                THEN {r \in @ : r.task_id # task_id}
                ELSE @],
     result |-> Ok(Unit)]

\* update_task: the column list built from the request is never used; the one
\* statement executed is UPDATE tasks SET updated_at = ? WHERE id = ?, which
\* matches no row when the id is unknown and still succeeds
update_task(db, task_id, request, now) ==
    [db |-> [db EXCEPT !.tasks =
                [i \in DOMAIN @ |->
                    IF i = task_id THEN [@[i] EXCEPT !.updated_at = to_rfc3339(now)]
                    ELSE @[i]]],
     result |-> Ok(Unit)]

\* delete_task without the ON DELETE CASCADE of the related-task columns
delete_task_NoCascadeOnRelated(db, task_id) ==
    [db |-> [tasks |-> Without(db.tasks, task_id),
             checklist_items |-> {r \in db.checklist_items : r.task_id # task_id},
             task_dependencies |-> {e \in db.task_dependencies : e.task_id # task_id},
             task_blocks |-> {e \in db.task_blocks : e.task_id # task_id},
             workspace_config |-> db.workspace_config],
     result |-> Ok(Unit)]

\* delete_task: DELETE FROM tasks WHERE id = ?, with the ON DELETE CASCADE of
\* checklist_items.task_id and of both columns of both relationship tables;
\* it succeeds whether or not a row matched
delete_task(db, task_id) ==
    [db |-> [tasks |-> Without(db.tasks, task_id),
             checklist_items |-> {r \in db.checklist_items : r.task_id # task_id},
             task_dependencies |-> {e \in db.task_dependencies :
                                      e.task_id # task_id /\ e.related_id # task_id},
             task_blocks |-> {e \in db.task_blocks :
                                e.task_id # task_id /\ e.related_id # task_id},
             workspace_config |-> db.workspace_config],
     result |-> Ok(Unit)]

\* ------------------------------------------- calls, statement by statement
\* the child collections of a row a reader has already fetched: four SELECTs
\* by the row's id
EnrichRow(db, task_id, row) ==
    [TaskFromRow(task_id, row) EXCEPT
       !.acceptance_criteria = get_checklist_items(db, task_id, "acceptance_criteria"),
       !.technical_tasks = get_checklist_items(db, task_id, "technical_tasks"),
       !.dependencies = get_task_relationships(db, task_id, "task_dependencies"),
       !.blocks = get_task_relationships(db, task_id, "task_blocks")]

\* the statements of create_task in the order of its text: the INSERT of the
\* main row, the INSERTs of the four child collections, and the two parts of
\* the final get_task_by_id. The DELETE that opens each save finds no row of
\* the new id and is left out.
Stages ==
    <<"tasks", "acceptance_criteria", "technical_tasks", "task_dependencies", "task_blocks",
      "select_row", "select_children", "return">>

\* the stage after a stage, with the two relationship saves exchanged
StageAfter_BlocksBeforeDependencies(stage) ==
    CASE stage = "technical_tasks" -> "task_blocks"
      [] stage = "task_blocks" -> "task_dependencies"
      [] stage = "task_dependencies" -> "select_row"
      [] OTHER -> Stages[(CHOOSE k \in DOMAIN Stages : Stages[k] = stage) + 1]

StageAfter(stage) == Stages[(CHOOSE k \in DOMAIN Stages : Stages[k] = stage) + 1]

\* the list a stage of create_task inserts from
StageList(request, stage) ==
    IF stage \in {"acceptance_criteria", "technical_tasks"} THEN request[stage]
    ELSE IF stage = "task_dependencies" THEN request.dependencies
    ELSE IF stage = "task_blocks" THEN request.blocks
    ELSE <<>>

\* a call of create_task that has finished the loop of its stage moves on to
\* the next stage that has a statement to execute
RECURSIVE Settle(_)
Settle(c) ==
    IF /\ c.stage \in {"acceptance_criteria", "technical_tasks",
                       "task_dependencies", "task_blocks"}
       /\ c.i > Len(StageList(c.request, c.stage))
    THEN Settle([c EXCEPT !.stage = StageAfter(c.stage), !.i = 1])
    ELSE c

NotRunning == [stage |-> "idle"]
Returned(c, result) == [c EXCEPT !.stage = "return", !.result = result]

\* the start of create_task: a fresh id and the reading of the clock
create_task_start(ctr, request, now) ==
    [stage |-> "tasks", id |-> ctr.task + 1, request |-> request, now |-> now, i |-> 1,
     row |-> None, result |-> Err]

\* the next statement of a call of create_task: a failed statement returns
\* Err through `?`; the unwrap of the re-read panics when the row is gone
create_task_step(db, n_item, c) ==
    CASE c.stage = "tasks" ->
            [db |-> [db EXCEPT !.tasks = (c.id :> NewTaskRow(c.request, c.now)) @@ @],
             n_item |-> n_item,
             c |-> Settle([c EXCEPT !.stage = StageAfter("tasks")])]
      [] c.stage \in {"acceptance_criteria", "technical_tasks"} ->
            LET r == InsertChecklistItems(db, n_item, c.id,
                                          SubSeq(c.request[c.stage], 1, c.i), c.stage, c.i)
            IN [db |-> r.db, n_item |-> r.n_item,
                c |-> IF r.ok THEN Settle([c EXCEPT !.i = @ + 1]) ELSE Returned(c, Err)]
      [] c.stage \in {"task_dependencies", "task_blocks"} ->
            LET r == InsertRelationships(db, c.id,
                                         SubSeq(StageList(c.request, c.stage), 1, c.i),
                                         c.stage, c.i)
            IN [db |-> r.db, n_item |-> n_item,
                c |-> IF r.ok THEN Settle([c EXCEPT !.i = @ + 1]) ELSE Returned(c, Err)]
      [] c.stage = "select_row" ->
            [db |-> db, n_item |-> n_item,
             c |-> IF c.id \in DOMAIN db.tasks
                   THEN [c EXCEPT !.stage = StageAfter("select_row"),
                                  !.row = Some(db.tasks[c.id])]
                   ELSE Returned(c, Panicked)]
      [] c.stage = "select_children" ->
            [db |-> db, n_item |-> n_item,
             c |-> Returned(c, Ok(EnrichRow(db, c.id, Unwrap(c.row))))]

\* ----------------------------------------------------- workspace_config
\* a JSON object text is stored as <<"json", object>>, the object a function
\* from its keys; serde_json::from_str into a struct with the given fields
\* fails when a field is missing and drops the keys the struct does not have
Json(object) == <<"json", object>>
from_str(text, fields) ==
    IF fields \subseteq DOMAIN text[2]
    THEN Ok([f \in fields |-> text[2][f]])
    ELSE Err

WorkspaceFeatures == {"realtime", "analytics", "webhooks", "custom_fields"}
WorkspaceLimits == {"max_tasks", "max_users", "api_rate_limit"}

\* the row the INSERT OR IGNORE of create_tables supplies; timezone and
\* date_format take the DEFAULT of their columns
DefaultConfigRow ==
    [workspace_name |-> "Taskdown Workspace",
     timezone |-> "UTC",
     date_format |-> "YYYY-MM-DD",
     features |-> Json([realtime |-> FALSE, analytics |-> TRUE,
                        webhooks |-> FALSE, custom_fields |-> FALSE]),
     limits |-> Json([max_tasks |-> 10000, max_users |-> 100, api_rate_limit |-> 1000])]

\* create_tables that replaces the stored configuration (INSERT OR REPLACE)
create_tables_InsertOrReplace(db) ==
    [db EXCEPT !.workspace_config = (1 :> DefaultConfigRow)]

\* create_tables: every CREATE is IF NOT EXISTS and leaves an existing table
\* alone; INSERT OR IGNORE adds the default configuration row unless a row
\* with id 1 is there
create_tables(db) ==
    IF 1 \in DOMAIN db.workspace_config THEN db
    ELSE [db EXCEPT !.workspace_config = (1 :> DefaultConfigRow)]

\* get_workspace_config: fetch_one fails when no row has id 1, and either
\* from_str may fail
get_workspace_config(db) ==
    IF 1 \notin DOMAIN db.workspace_config THEN Err
    ELSE LET row == db.workspace_config[1]
             features == from_str(row.features, WorkspaceFeatures)
             limits == from_str(row.limits, WorkspaceLimits)
         IN IF features.status = "Err" \/ limits.status = "Err" THEN Err
            ELSE Ok([workspace_name |-> row.workspace_name,
                     timezone |-> row.timezone,
                     date_format |-> row.date_format,
                     features |-> features.value,
                     limits |-> limits.value])

\* clear_all_tasks: DELETE FROM each of the four task tables
clear_all_tasks(db) ==
    [db EXCEPT !.task_dependencies = {}, !.task_blocks = {},
               !.checklist_items = {}, !.tasks = <<>>]

\* the statements of clear_all_tasks, in the order of its text
ClearStatements == <<"task_dependencies", "task_blocks", "checklist_items", "tasks">>

\* statement k of clear_all_tasks; the DELETE FROM tasks cascades
clear_all_tasks_step(db, k) ==
    IF ClearStatements[k] = "tasks" THEN clear_all_tasks(db)
    ELSE [db EXCEPT ![ClearStatements[k]] = {}]

\* ------------------------------------------------------------ get_tasks
\* the i-th character of a string, and the first position of character c
Char(s, i) == SubSeq(s, i, i)
IndexOf(s, c) ==
    IF \E i \in 1..Len(s) : Char(s, i) = c
    THEN CHOOSE i \in 1..Len(s) : Char(s, i) = c /\ \A j \in 1..(i - 1) : Char(s, j) # c
    ELSE 0

\* s.split(':').next() and s.split(':').nth(1)
SplitNext(s) ==
    IF IndexOf(s, ":") = 0 THEN s ELSE SubSeq(s, 1, IndexOf(s, ":") - 1)
SplitNth1(s) ==
    IF IndexOf(s, ":") = 0 THEN None
    ELSE LET rest == SubSeq(s, IndexOf(s, ":") + 1, Len(s))
         IN Some(SplitNext(rest))

\* ASCII case folding of SQLite's LIKE, for the letters the model's texts use
Fold(c) ==
    CASE c = "A" -> "a" [] c = "B" -> "b" [] c = "D" -> "d" [] c = "E" -> "e"
      [] c = "S" -> "s" [] c = "T" -> "t" [] OTHER -> c

\* SQLite's  text LIKE pattern  (% any run of characters, _ any one character)
RECURSIVE Like(_, _)
Like(text, pattern) ==
    IF pattern = "" THEN text = ""
    ELSE IF Char(pattern, 1) = "%"
    THEN \/ Like(text, SubSeq(pattern, 2, Len(pattern)))
         \/ text # "" /\ Like(SubSeq(text, 2, Len(text)), pattern)
    ELSE /\ text # ""
         /\ Char(pattern, 1) = "_" \/ Fold(Char(pattern, 1)) = Fold(Char(text, 1))
         /\ Like(SubSeq(text, 2, Len(text)), SubSeq(pattern, 2, Len(pattern)))

\* whether text has the string part somewhere inside it
Contains(text, part) ==
    \E i \in 1..(Len(text) + 1) :
        i + Len(part) - 1 <= Len(text) /\ SubSeq(text, i, i + Len(part) - 1) = part

\* the columns of table tasks
TableColumns == {"id", "title", "task_type", "priority", "status", "story_points",
                 "sprint", "epic", "description", "assignee", "is_favorite",
                 "thumbnail", "created_at", "updated_at"}

\* the texts the model stores, in SQLite's BINARY collation (byte order)
Collation == <<"", "Alpha", "Beta", "Bug", "Critical", "Done", "E1", "E2", "Epic",
               "High", "InProgress", "InReview", "Low", "Medium", "S1", "Story",
               "Task", "Todo", "d1", "img", "u1">>
CollationRank(s) == CHOOSE i \in 1..Len(Collation) : Collation[i] = s

\* the position of a row in ORDER BY <column>: NULL first, integers by value,
\* texts by collation, timestamps by instant (RFC 3339 texts of one offset
\* compare as their instants do); the order of two uuids is their order of issue
SortKey(id, row, column) ==
    CASE column = "id" -> id
      [] column \in {"created_at", "updated_at"} -> parse_from_rfc3339(row[column])
      [] column = "story_points" ->
            IF row.story_points = None THEN -1 ELSE Unwrap(row.story_points)
      [] column = "is_favorite" ->
            IF row.is_favorite = None THEN -1
            ELSE IF Unwrap(row.is_favorite) THEN 1 ELSE 0
      [] column \in {"sprint", "epic", "assignee", "thumbnail"} ->
            IF row[column] = None THEN 0 ELSE CollationRank(Unwrap(row[column]))
      [] OTHER -> CollationRank(row[column])

\* the ids of S as a sequence ordered by the column, ascending or descending
OrderBy(db, S, column, descending) ==
    LET n == Cardinality(S)
        key(i) == SortKey(i, db.tasks[i], column)
    IN CHOOSE s \in [1..n -> S] :
          /\ \A i, j \in 1..n : i # j => s[i] # s[j]
          /\ \A i, j \in 1..n : i < j =>
                IF descending THEN key(s[i]) >= key(s[j]) ELSE key(s[i]) <= key(s[j])

\* Paginate that applies the offset also when there is no limit
Paginate_OffsetWithoutLimit(s, limit, offset) ==
    LET o == IF offset = None THEN 0 ELSE Unwrap(offset)
        l == IF limit = None THEN Len(s) ELSE Unwrap(limit)
        last_i == IF o + l < Len(s) THEN o + l ELSE Len(s)
    IN SubSeq(s, o + 1, last_i)

\* LIMIT l OFFSET o of a sequence
Paginate(s, limit, offset) ==
    IF limit = None THEN s
    ELSE LET o == IF offset = None THEN 0 ELSE Unwrap(offset)
             last_i == IF o + Unwrap(limit) < Len(s) THEN o + Unwrap(limit) ELSE Len(s)
         IN SubSeq(s, o + 1, last_i)

\* the WHERE clause: every supplied filter as a bound parameter, joined by AND;
\* a NULL column equals nothing
Matches(row, params) ==
    /\ params.epic = None \/ row.epic = params.epic
    /\ params.status = None \/ row.status = Unwrap(params.status)
    /\ params.assignee = None \/ row.assignee = params.assignee
    /\ params.search = None
       \/ Like(row.title, "%" \o Unwrap(params.search) \o "%")
       \/ Like(row.description, "%" \o Unwrap(params.search) \o "%")

\* the text get_tasks formats: filters as placeholders, the sort column and
\* direction and the page numbers interpolated
sort_column(params) ==
    IF params.sort = None THEN "updated_at" ELSE SplitNext(Unwrap(params.sort))

\* sort_direction with "asc" where the code defaults to "desc"
sort_direction_DefaultAsc(params) ==
    IF params.sort = None \/ SplitNth1(Unwrap(params.sort)) = None THEN "asc"
    ELSE Unwrap(SplitNth1(Unwrap(params.sort)))

sort_direction(params) ==
    IF params.sort = None \/ SplitNth1(Unwrap(params.sort)) = None THEN "desc"
    ELSE Unwrap(SplitNth1(Unwrap(params.sort)))

QueryText(params) ==
    "SELECT ... FROM tasks WHERE 1=1"
    \o (IF params.epic = None THEN "" ELSE " AND epic = ?")
    \o (IF params.status = None THEN "" ELSE " AND status = ?")
    \o (IF params.assignee = None THEN "" ELSE " AND assignee = ?")
    \o (IF params.search = None THEN "" ELSE " AND (title LIKE ? OR description LIKE ?)")
    \o " ORDER BY " \o sort_column(params) \o " " \o sort_direction(params)
    \o (IF params.limit = None THEN ""
        ELSE " LIMIT " \o ToString(Unwrap(params.limit))
             \o (IF params.offset = None THEN ""
                 ELSE " OFFSET " \o ToString(Unwrap(params.offset))))

\* the statement a sort column may carry behind a ';' (sqlx runs every
\* statement of a query text in turn); the rest of the line is commented out
InjectedDelete == "; DELETE FROM tasks; --"
InjectedConfigDelete == "; DELETE FROM workspace_config; --"

\* the full tasks of a sequence of ids
Enrich(db, ids) == [i \in 1..Len(ids) |-> Unwrap(get_task_by_id(db, ids[i]))]

\* get_tasks: what SQLite makes of the formatted text, then the child
\* collections of every row
get_tasks(db, params) ==
    LET column == sort_column(params)
        direction == sort_direction(params)
        matching == {i \in DOMAIN db.tasks : Matches(db.tasks[i], params)}
    IN IF column \in TableColumns /\ direction \in {"", "asc", "desc", "ASC", "DESC"}
       THEN [db |-> db,
             result |-> Ok(Enrich(db, Paginate(
                            OrderBy(db, matching, column, direction \in {"desc", "DESC"}),
                            params.limit, params.offset)))]
       ELSE IF \E c \in TableColumns : column = c \o InjectedDelete
       THEN LET c == CHOOSE c \in TableColumns : column = c \o InjectedDelete
            IN [db |-> [EmptyDB EXCEPT !.workspace_config = db.workspace_config],
                result |-> Ok(Enrich(db, OrderBy(db, matching, c, FALSE)))]
       ELSE IF \E c \in TableColumns : column = c \o InjectedConfigDelete
       THEN LET c == CHOOSE c \in TableColumns : column = c \o InjectedConfigDelete
            IN [db |-> [db EXCEPT !.workspace_config = <<>>],
                result |-> Ok(Enrich(db, OrderBy(db, matching, c, FALSE)))]
       ELSE [db |-> db, result |-> Err]

\* ------------------------------------------------------------ analytics
\* SELECT COUNT(*) FROM tasks
get_task_count(db) == Cardinality(DOMAIN db.tasks)

\* SELECT <column>, COUNT(*) FROM tasks GROUP BY <column>, collected into a
\* HashMap: one key per value that occurs in the column
GroupCount(db, column) ==
    [v \in {db.tasks[i][column] : i \in DOMAIN db.tasks} |->
        Cardinality({i \in DOMAIN db.tasks : db.tasks[i][column] = v})]

get_tasks_by_status(db) == GroupCount(db, "status")

\* get_tasks_by_type that groups by the status column
get_tasks_by_type_GroupByStatus(db) == GroupCount(db, "status")

get_tasks_by_type(db) == GroupCount(db, "task_type")

get_tasks_by_priority(db) == GroupCount(db, "priority")

\* SUM(story_points) over a set of rows
RECURSIVE SumStoryPoints(_, _)
SumStoryPoints(db, S) ==
    IF S = {} THEN 0
    ELSE LET i == CHOOSE i \in S : TRUE
         IN Unwrap(db.tasks[i].story_points) + SumStoryPoints(db, S \ {i})

\* a float result is kept as the exact fraction num / den it was computed
\* from; den = 0 stands for the NaN of 0.0 / 0.0
Ratio(num, den) == [num |-> num, den |-> den]
Zero == Ratio(0, 1)

\* get_average_story_points that divides by the number of all tasks
get_average_story_points_CountNulls(db) ==
    LET pointed == {i \in DOMAIN db.tasks : db.tasks[i].story_points # None}
    IN IF pointed = {} THEN Zero
       ELSE Ratio(SumStoryPoints(db, pointed), Cardinality(DOMAIN db.tasks))

\* AVG(CAST(story_points as REAL)) .. WHERE story_points IS NOT NULL; AVG of
\* no rows is NULL, which unwrap_or turns into 0.0
get_average_story_points(db) ==
    LET pointed == {i \in DOMAIN db.tasks : db.tasks[i].story_points # None}
    IN IF pointed = {} THEN Zero
       ELSE Ratio(SumStoryPoints(db, pointed), Cardinality(pointed))

\* get_completion_rate without the early return for an empty table
get_completion_rate_NoEmptyGuard(db) ==
    Ratio(Cardinality({i \in DOMAIN db.tasks : db.tasks[i].status = "Done"}) * 100,
          Cardinality(DOMAIN db.tasks))

get_completion_rate(db) ==
    LET total == Cardinality(DOMAIN db.tasks)
        completed == Cardinality({i \in DOMAIN db.tasks : db.tasks[i].status = "Done"})
    IN IF total = 0 THEN Zero ELSE Ratio(completed * 100, total)

\* the rows of a SELECT DISTINCT in the order the engine produced them
RECURSIVE Rows(_)
Rows(S) ==
    IF S = {} THEN <<>>
    ELSE LET x == CHOOSE x \in S : TRUE IN <<x>> \o Rows(S \ {x})

\* get_active_sprints that leaves out the status condition
get_active_sprints_IncludeDone(db) ==
    Rows({Unwrap(db.tasks[i].sprint) : i \in
            {i \in DOMAIN db.tasks : /\ db.tasks[i].sprint # None
                                     /\ db.tasks[i].sprint # Some("")}})

get_active_sprints(db) ==
    Rows({Unwrap(db.tasks[i].sprint) : i \in
            {i \in DOMAIN db.tasks : /\ db.tasks[i].sprint # None
                                     /\ db.tasks[i].sprint # Some("")
                                     /\ db.tasks[i].status # "Done"}})

\* the AnalyticsSummary that analytics_summary_handler assembles
AnalyticsSummary(db, now) ==
    [total_tasks |-> get_task_count(db),
     tasks_by_status |-> get_tasks_by_status(db),
     tasks_by_type |-> get_tasks_by_type(db),
     tasks_by_priority |-> get_tasks_by_priority(db),
     average_story_points |-> get_average_story_points(db),
     completion_rate |-> get_completion_rate(db),
     active_sprints |-> get_active_sprints(db),
     last_updated |-> now]

\* ------------------------------------------------------------- handlers
\* Json(ApiResponse::success(..)): 200 with a body of success = true and no
\* error; Err(StatusCode): the bare status with no body
HttpOk == [http |-> "200 OK", body |-> Some([success |-> TRUE, error |-> None])]
HttpStatus(code) == [http |-> code, body |-> None]

\* tasks_get_handler
tasks_get_handler(result) ==
    IF result.status = "Ok"
    THEN IF result.value = None THEN HttpStatus("404 NOT_FOUND") ELSE HttpOk
    ELSE HttpStatus("500 INTERNAL_SERVER_ERROR")

\* tasks_create_handler
tasks_create_handler(result) ==
    IF result.status = "Ok" THEN HttpOk ELSE HttpStatus("500 INTERNAL_SERVER_ERROR")

\* tasks_update_handler
tasks_update_handler(result) ==
    IF result.status = "Ok" THEN HttpOk ELSE HttpStatus("500 INTERNAL_SERVER_ERROR")

\* tasks_delete_handler
tasks_delete_handler(result) ==
    IF result.status = "Ok" THEN HttpOk ELSE HttpStatus("500 INTERNAL_SERVER_ERROR")

\* tasks_list_handler
tasks_list_handler(result) ==
    IF result.status = "Ok" THEN HttpOk ELSE HttpStatus("500 INTERNAL_SERVER_ERROR")

\* analytics_summary_handler
analytics_summary_handler(result) ==
    IF result.status = "Ok" THEN HttpOk ELSE HttpStatus("500 INTERNAL_SERVER_ERROR")

\* config_get_handler
config_get_handler(result) ==
    IF result.status = "Ok" THEN HttpOk ELSE HttpStatus("500 INTERNAL_SERVER_ERROR")

\* config_update_handler: answers {"updated": true} to any request and never
\* reaches the database
config_update_handler(db, request) == [db |-> db, result |-> Ok(Unit), response |-> HttpOk]

\* ------------------------------------------------------- authentication
\* s.split(sep).collect()
RECURSIVE Split(_, _)
Split(s, sep) ==
    IF IndexOf(s, sep) = 0 THEN <<s>>
    ELSE <<SubSeq(s, 1, IndexOf(s, sep) - 1)>>
         \o Split(SubSeq(s, IndexOf(s, sep) + 1, Len(s)), sep)

\* parts.join(sep)
RECURSIVE Join(_, _)
Join(parts, sep) ==
    IF Len(parts) = 0 THEN ""
    ELSE IF Len(parts) = 1 THEN parts[1]
    ELSE parts[1] \o sep \o Join(Tail(parts), sep)

\* s.starts_with(prefix)
StartsWith(s, prefix) == Len(s) >= Len(prefix) /\ SubSeq(s, 1, Len(prefix)) = prefix

\* str::parse::<i64>() of a text of decimal digits behind an optional sign;
\* None for any other text
Digit(c) ==
    CASE c = "0" -> 0 [] c = "1" -> 1 [] c = "2" -> 2 [] c = "3" -> 3 [] c = "4" -> 4
      [] c = "5" -> 5 [] c = "6" -> 6 [] c = "7" -> 7 [] c = "8" -> 8 [] c = "9" -> 9
      [] OTHER -> -1
RECURSIVE Digits(_)
Digits(s) ==
    IF Len(s) = 0 THEN 0
    ELSE Digits(SubSeq(s, 1, Len(s) - 1)) * 10 + Digit(Char(s, Len(s)))
parse(s) ==
    LET signed == Len(s) > 0 /\ Char(s, 1) \in {"+", "-"}
        digits == IF signed THEN SubSeq(s, 2, Len(s)) ELSE s
    IN IF Len(digits) > 0 /\ \A i \in 1..Len(digits) : Digit(Char(digits, i)) >= 0
       THEN Some(IF signed /\ Char(s, 1) = "-" THEN 0 - Digits(digits) ELSE Digits(digits))
       ELSE None

\* Duration::hours(h) in the seconds of a timestamp
Hours(h) == h * 3600

\* the leeway of jsonwebtoken's Validation::default(), in seconds
Leeway == 60

\* AuthService::new: the JWT secret when JWT_SECRET is not set
jwt_secret == "default-jwt-secret-change-in-production"

\* Claims::new
Claims(user_id, username, permissions, expires_in_hours, now) ==
    [sub |-> user_id, username |-> username, permissions |-> permissions,
     iat |-> now, exp |-> now + Hours(expires_in_hours)]

\* the HS256 signature of a payload under a key: equal for equal payload and
\* key only
Sign(payload, key) == "mac(" \o key \o "," \o payload \o ")"

\* jsonwebtoken::encode: header.payload.signature, the payload the claims
\* serialised field by field
encode(claims, key) ==
    LET payload == Join(<<claims.sub, claims.username, Join(claims.permissions, ","),
                          ToString(claims.exp), ToString(claims.iat)>>, "|")
    IN Join(<<"HS256", payload, Sign(payload, key)>>, ".")

\* jsonwebtoken::decode with Validation::default(): three parts, the HS256
\* header, a signature that matches the payload under the key, claims that
\* deserialise, and exp not more than the leeway in the past
decode(token, key, now) ==
    LET parts == Split(token, ".")
    IN IF Len(parts) # 3 \/ parts[1] # "HS256" THEN Err
       ELSE IF parts[3] # Sign(parts[2], key) THEN Err
       ELSE LET fields == Split(parts[2], "|")
            IN IF Len(fields) # 5 \/ parse(fields[4]) = None \/ parse(fields[5]) = None
               THEN Err
               ELSE IF Unwrap(parse(fields[4])) < now - Leeway THEN Err
               ELSE Ok([sub |-> fields[1], username |-> fields[2],
                        permissions |-> IF fields[3] = "" THEN <<>> ELSE Split(fields[3], ","),
                        iat |-> Unwrap(parse(fields[5])),
                        exp |-> Unwrap(parse(fields[4]))])

create_token(claims) == encode(claims, jwt_secret)
verify_token(token, now) == decode(token, jwt_secret, now)

\* the Ok of verify_api_key, verify_basic_auth and verify_custom_auth
AuthVerificationResult(claims, now) ==
    Ok([authenticated |-> TRUE,
        session_token |-> Some(create_token(claims)),
        expires_at |-> Some(now + Hours(24)),
        permissions |-> claims.permissions])

\* verify_api_key that accepts every key
verify_api_key_AcceptAny(token, now) ==
    AuthVerificationResult(Claims("api-user", "api-user", <<"read", "write">>, 24, now), now)

verify_api_key(token, now) ==
    IF token = "taskdown-api-key-12345"
    THEN AuthVerificationResult(Claims("api-user", "api-user", <<"read", "write">>, 24, now), now)
    ELSE Err

verify_basic_auth(username, password, now) ==
    IF username = "admin" /\ password = "admin"
    THEN AuthVerificationResult(
             Claims("admin-user", username, <<"read", "write", "admin">>, 24, now), now)
    ELSE Err

verify_custom_auth(headers, now) ==
    IF "X-Auth-Token" \in DOMAIN headers
    THEN IF headers["X-Auth-Token"] = "custom-token-abc123"
         THEN AuthVerificationResult(
                  Claims("custom-user", "custom-user", <<"read", "write">>, 24, now), now)
         ELSE Err
    ELSE Err

\* AuthService::authenticate_request
authenticate_request(auth_config, now) ==
    CASE auth_config.type \in {"api-key", "bearer"} ->
            IF IsSome(auth_config.token)
            THEN verify_api_key(Unwrap(auth_config.token), now) ELSE Err
      [] auth_config.type = "basic" ->
            IF IsSome(auth_config.username) /\ IsSome(auth_config.password)
            THEN verify_basic_auth(Unwrap(auth_config.username),
                                   Unwrap(auth_config.password), now)
            ELSE Err
      [] auth_config.type = "custom" ->
            IF IsSome(auth_config.custom_headers)
            THEN verify_custom_auth(Unwrap(auth_config.custom_headers), now) ELSE Err
      [] OTHER -> Err

\* extract_auth_claims that reports a token that does not verify as an error
extract_auth_claims_ErrOnInvalid(authorization_header, now) ==
    IF IsSome(authorization_header) /\ StartsWith(Unwrap(authorization_header), "Bearer ")
    THEN LET token == SubSeq(Unwrap(authorization_header), 8, Len(Unwrap(authorization_header)))
         IN IF verify_token(token, now).status = "Ok"
            THEN Ok(Some(verify_token(token, now).value)) ELSE Err
    ELSE Ok(None)

\* extract_auth_claims
extract_auth_claims(authorization_header, now) ==
    IF IsSome(authorization_header) /\ StartsWith(Unwrap(authorization_header), "Bearer ")
    THEN LET token == SubSeq(Unwrap(authorization_header), 8, Len(Unwrap(authorization_header)))
         IN IF verify_token(token, now).status = "Ok"
            THEN Ok(Some(verify_token(token, now).value)) ELSE Ok(None)
    ELSE Ok(None)

\* the JSON body of an ApiResponse
ApiSuccess(data) == [success |-> TRUE, data |-> Some(data), error |-> None]
ApiError(code) == [success |-> FALSE, data |-> None, error |-> Some(code)]
AuthResponse(authenticated, session_token, expires_at, permissions) ==
    [authenticated |-> authenticated, session_token |-> session_token,
     expires_at |-> expires_at, permissions |-> permissions]

\* auth_verify_handler
auth_verify_handler(result) ==
    IF result.status = "Ok"
    THEN ApiSuccess(AuthResponse(result.value.authenticated, result.value.session_token,
                                 result.value.expires_at, result.value.permissions))
    ELSE ApiError("AUTH_FAILED")

\* auth_status_handler
auth_status_handler(result) ==
    IF result.status = "Ok"
    THEN IF IsSome(result.value)
         THEN ApiSuccess(AuthResponse(TRUE, None, Some(Unwrap(result.value).exp),
                                      Unwrap(result.value).permissions))
         ELSE ApiSuccess(AuthResponse(FALSE, None, None, <<>>))
    ELSE ApiError("TOKEN_INVALID")

\* ------------------------------------- authentication: Cloudflare variant
\* get_auth_config: AuthConfig::default()
session_duration_hours == 24
require_api_key == FALSE
api_keys == {}

\* AuthService::verify_api_key
cf_verify_api_key(api_key) == IF ~require_api_key THEN TRUE ELSE api_key \in api_keys

\* AuthService::verify_credentials
cf_verify_credentials(username, password) ==
    CASE username = "admin" -> password = "admin123"
      [] username = "user" -> password = "user123"
      [] OTHER -> FALSE

\* AuthService::get_user_permissions
get_user_permissions(username) ==
    IF username = "admin" THEN <<"read", "write", "admin">> ELSE <<"read", "write">>

\* AuthService::create_session_token: format!("session_{}_{}_{}", sub, username, exp)
create_session_token(user_id, username, now) ==
    LET claims == Claims(user_id, username, get_user_permissions(username),
                         session_duration_hours, now)
    IN "session_" \o claims.sub \o "_" \o claims.username \o "_" \o ToString(claims.exp)

\* verify_session_token that does not look at the expiry
verify_session_token_NoExpiryCheck(token, now) ==
    IF ~StartsWith(token, "session_") THEN Err
    ELSE LET parts == Split(token, "_")
         IN IF Len(parts) # 4 THEN Err
            ELSE IF parse(parts[4]) = None THEN Err
            ELSE Ok([sub |-> parts[2], username |-> parts[3],
                     permissions |-> get_user_permissions(parts[3]),
                     exp |-> Unwrap(parse(parts[4])), iat |-> 0])

\* AuthService::verify_session_token
verify_session_token(token, now) ==
    IF ~StartsWith(token, "session_") THEN Err
    ELSE LET parts == Split(token, "_")
         IN IF Len(parts) # 4 THEN Err
            ELSE IF parse(parts[4]) = None THEN Err
            ELSE IF now > Unwrap(parse(parts[4])) THEN Err
            ELSE Ok([sub |-> parts[2], username |-> parts[3],
                     permissions |-> get_user_permissions(parts[3]),
                     exp |-> Unwrap(parse(parts[4])), iat |-> 0])

\* AuthService::extract_auth_header: strip_prefix("Bearer ")
extract_auth_header(authorization) ==
    IF IsSome(authorization) /\ StartsWith(Unwrap(authorization), "Bearer ")
    THEN Some(SubSeq(Unwrap(authorization), 8, Len(Unwrap(authorization))))
    ELSE None

\* authenticate_request of the Cloudflare handlers
cf_authenticate_request(authorization, now) ==
    IF IsSome(extract_auth_header(authorization))
    THEN verify_session_token(Unwrap(extract_auth_header(authorization)), now)
    ELSE Err

\* auth_verify_handler of the Cloudflare handlers: the session it issues, if
\* any, and its response
cf_auth_verify_handler(credentials, now) ==
    LET authenticated ==
            CASE credentials.type = "password" ->
                    IF IsSome(credentials.username) /\ IsSome(credentials.password)
                    THEN cf_verify_credentials(Unwrap(credentials.username),
                                               Unwrap(credentials.password))
                    ELSE FALSE
              [] credentials.type = "api_key" ->
                    IF IsSome(credentials.token)
                    THEN cf_verify_api_key(Unwrap(credentials.token)) ELSE FALSE
              [] OTHER -> FALSE
        username == IF IsSome(credentials.username) THEN Unwrap(credentials.username)
                    ELSE "api_user"
        user_id == "user_" \o username
        session_token == create_session_token(user_id, username, now)
    IN IF authenticated
       THEN [session |-> Some([session_token |-> Some(session_token),
                               user_id |-> user_id, username |-> username,
                               expires_at |-> Some(now + Hours(24)),
                               permissions |-> get_user_permissions(username)]),
             response |-> ApiSuccess(AuthResponse(TRUE, Some(session_token),
                                                  Some(now + Hours(24)),
                                                  get_user_permissions(username)))]
       ELSE [session |-> None, response |-> ApiError("INVALID_CREDENTIALS")]

\* ------------------------------------------------------------- requests
Item(id, text, completed) == [id |-> id, text |-> text, completed |-> completed]
ClientId(n) == <<"client", n>>

\* the id no task ever has, for requests that name a task that does not exist
NoSuchTask == 0

BaseCreate ==
    [title |-> "Alpha", type |-> "TaskType::Story", priority |-> "Priority::High",
     status |-> "TaskStatus::Todo", story_points |-> Some(5), sprint |-> Some("S1"),
     epic |-> Some("E1"), description |-> "d1",
     acceptance_criteria |-> <<>>, technical_tasks |-> <<>>,
     dependencies |-> <<>>, blocks |-> <<>>,
     assignee |-> Some("u1"), is_favorite |-> Some(TRUE), thumbnail |-> None]

\* the CreateTaskRequest payloads: with and without client-supplied item ids,
\* an item id used twice, related ids that exist, do not exist or repeat
CreateRequests ==
    { [BaseCreate EXCEPT
         !.acceptance_criteria = <<Item(None, "ac1", FALSE), Item(None, "ac2", TRUE)>>,
         !.technical_tasks = <<Item(Some(ClientId(1)), "tt1", TRUE)>>],
      [BaseCreate EXCEPT
         !.title = "Beta", !.type = "TaskType::Task", !.priority = "Priority::Medium",
         !.status = "TaskStatus::InProgress", !.story_points = None, !.sprint = None,
         !.epic = Some("E2"), !.description = "", !.assignee = None,
         !.is_favorite = None, !.thumbnail = Some("img"),
         !.technical_tasks = <<Item(Some(ClientId(2)), "tt2", FALSE), Item(None, "tt3", TRUE)>>,
         !.dependencies = <<1>>, !.blocks = <<1>>],
      [BaseCreate EXCEPT
         !.type = "TaskType::Bug", !.priority = "Priority::Low",
         !.status = "TaskStatus::InReview", !.story_points = Some(3),
         !.acceptance_criteria = <<Item(None, "ac3", FALSE)>>,
         !.dependencies = <<1, 1>>],
      [BaseCreate EXCEPT
         !.title = "Beta", !.type = "TaskType::Epic", !.priority = "Priority::Critical",
         !.status = "TaskStatus::Done", !.sprint = Some(""),
         !.technical_tasks = <<Item(None, "tt4", FALSE)>>,
         !.blocks = <<1, NoSuchTask>>],
      [BaseCreate EXCEPT
         !.status = "TaskStatus::Done", !.epic = None,
         !.acceptance_criteria = <<Item(Some(ClientId(1)), "ac4", FALSE),
                                   Item(Some(ClientId(1)), "ac5", TRUE)>>,
         !.dependencies = <<2, 1>>],
      [BaseCreate EXCEPT
         !.title = "Beta", !.type = "TaskType::Task", !.status = "TaskStatus::Done",
         !.story_points = Some(8), !.assignee = None] }

NoUpdate ==
    [title |-> None, type |-> None, priority |-> None, status |-> None,
     story_points |-> None, sprint |-> None, epic |-> None, description |-> None,
     acceptance_criteria |-> None, technical_tasks |-> None,
     dependencies |-> None, blocks |-> None,
     assignee |-> None, is_favorite |-> None, thumbnail |-> None]

\* the UpdateTaskRequest payloads: no field, the status alone, every column
\* update_task looks at, and child collections
UpdateRequests ==
    { NoUpdate,
      [NoUpdate EXCEPT !.status = Some("TaskStatus::Done")],
      [NoUpdate EXCEPT !.title = Some("Beta"), !.type = Some("TaskType::Story"),
                       !.priority = Some("Priority::High"),
                       !.status = Some("TaskStatus::Done"),
                       !.story_points = Some(Some(8)),
                       !.description = Some("d1")],
      [NoUpdate EXCEPT !.sprint = Some(None),
                       !.acceptance_criteria = Some(<<>>),
                       !.dependencies = Some(<<>>)] }

NoParams ==
    [epic |-> None, status |-> None, assignee |-> None, limit |-> None,
     offset |-> None, sort |-> None, search |-> None]

\* the TaskQueryParams: filters, pages, sort specifications the table knows
\* and ones it does not
QueryParams ==
    { NoParams,
      [NoParams EXCEPT !.epic = Some("E1"), !.sort = Some("title:asc")],
      [NoParams EXCEPT !.status = Some("Done"), !.limit = Some(1), !.offset = Some(1)],
      [NoParams EXCEPT !.search = Some("alp"), !.sort = Some("created_at")],
      [NoParams EXCEPT !.search = Some("a_p")],
      [NoParams EXCEPT !.limit = Some(1)],
      [NoParams EXCEPT !.limit = Some(1), !.offset = Some(1), !.sort = Some("created_at:asc")],
      [NoParams EXCEPT !.assignee = Some("u1"), !.offset = Some(1),
                       !.sort = Some("priority:desc:x")],
      [NoParams EXCEPT !.sort = Some("bogus:asc")],
      [NoParams EXCEPT !.sort = Some("title:sideways")],
      [NoParams EXCEPT !.sort = Some("id; DROP TABLE tasks")],
      [NoParams EXCEPT !.sort = Some("title" \o InjectedDelete)],
      [NoParams EXCEPT !.sort = Some("id" \o InjectedConfigDelete)] }

\* the ids a client can name: those issued so far and one that never exists
KnownIds == {NoSuchTask} \cup (1..uuids.task)

RelatedIds(request) ==
    {request.dependencies[i] : i \in DOMAIN request.dependencies}
    \cup {request.blocks[i] : i \in DOMAIN request.blocks}

\* -------------------------------------------------------------- actions
Store(db) ==
    /\ tasks' = db.tasks
    /\ checklist_items' = db.checklist_items
    /\ task_dependencies' = db.task_dependencies
    /\ task_blocks' = db.task_blocks
    /\ workspace_config' = db.workspace_config
    /\ pre' = DB

Served(op, id, request, result, response, query) ==
    /\ last' = [op |-> op, id |-> id, request |-> request, result |-> result,
                response |-> response, query |-> query]
    /\ UNCHANGED <<auth, running>>

Init ==
    /\ tasks = <<>>
    /\ checklist_items = {}
    /\ task_dependencies = {}
    /\ task_blocks = {}
    /\ uuids = [task |-> 0, item |-> 0]
    /\ clock = 0
    /\ last = [op |-> "init", id |-> NoSuchTask, request |-> None, result |-> Ok(Unit),
               response |-> HttpOk, query |-> ""]
    /\ workspace_config = create_tables(EmptyDB).workspace_config
    /\ config_updated = FALSE
    /\ auth = None
    /\ running = [create |-> NotRunning, read |-> NotRunning, clear |-> 0,
                  exposed |-> {}, requests |-> <<>>]
    /\ pre = create_tables(EmptyDB)

\* POST /api/tasks
Create ==
    \E request \in CreateRequests :
        /\ uuids.task < MaxTasks
        /\ clock < MaxClock
        /\ RelatedIds(request) \subseteq KnownIds
        /\ LET r == create_task(DB, uuids, request, clock + 1)
           IN /\ Store(r.db)
              /\ uuids' = r.ctr
              /\ Served("create", r.id, request, r.result,
                        tasks_create_handler(r.result), "")
        /\ clock' = clock + 1
        /\ UNCHANGED config_updated

\* PUT /api/tasks/:id
Update ==
    \E id \in KnownIds, request \in UpdateRequests :
        /\ clock < MaxClock
        /\ LET r == update_task(DB, id, request, clock + 1)
           IN /\ Store(r.db)
              /\ Served("update", id, request, r.result,
                        tasks_update_handler(r.result), "")
        /\ clock' = clock + 1
        /\ UNCHANGED <<uuids, config_updated>>

\* DELETE /api/tasks/:id
Delete ==
    \E id \in KnownIds :
        /\ LET r == delete_task(DB, id)
           IN /\ Store(r.db)
              /\ Served("delete", id, None, r.result, tasks_delete_handler(r.result), "")
        /\ UNCHANGED <<uuids, clock, config_updated>>

\* GET /api/tasks/:id
Get ==
    \E id \in KnownIds :
        /\ Store(DB)
        /\ Served("get", id, None, Ok(get_task_by_id(DB, id)),
                  tasks_get_handler(Ok(get_task_by_id(DB, id))), "")
        /\ UNCHANGED <<uuids, clock, config_updated>>

\* GET /api/tasks
List ==
    \E params \in QueryParams :
        /\ LET r == get_tasks(DB, params)
           IN /\ Store(r.db)
              /\ Served("list", NoSuchTask, params, r.result,
                        tasks_list_handler(r.result), QueryText(params))
        /\ UNCHANGED <<uuids, clock, config_updated>>

\* GET /api/analytics/summary
Summary ==
    /\ Store(DB)
    /\ Served("summary", NoSuchTask, None, Ok(AnalyticsSummary(DB, clock)),
              analytics_summary_handler(Ok(AnalyticsSummary(DB, clock))), "")
    /\ UNCHANGED <<uuids, clock, config_updated>>

\* the bodies a client may PUT to /api/config
ConfigUpdateRequests ==
    { [workspace_name |-> "Acme"],
      [timezone |-> "Europe/Paris", date_format |-> "DD/MM/YYYY"] }

\* GET /api/config
ConfigGet ==
    /\ Store(DB)
    /\ Served("config_get", NoSuchTask, None, get_workspace_config(DB),
              config_get_handler(get_workspace_config(DB)), "")
    /\ UNCHANGED <<uuids, clock, config_updated>>

\* PUT /api/config
ConfigUpdate ==
    \E request \in ConfigUpdateRequests :
        /\ LET r == config_update_handler(DB, request)
           IN /\ Store(r.db)
              /\ Served("config_update", NoSuchTask, request, r.result, r.response, "")
        /\ config_updated' = TRUE
        /\ UNCHANGED <<uuids, clock>>

\* a restart of the server: init_db runs create_tables on the same file
CreateTables ==
    /\ Store(create_tables(DB))
    /\ Served("create_tables", NoSuchTask, None, Ok(Unit), None, "")
    /\ UNCHANGED <<uuids, clock, config_updated>>

\* clear_all_tasks
ClearAllTasks ==
    /\ Store(clear_all_tasks(DB))
    /\ Served("clear_all_tasks", NoSuchTask, None, Ok(Unit), None, "")
    /\ UNCHANGED <<uuids, clock, config_updated>>

Next ==
    \/ Create \/ Update \/ Delete \/ Get \/ List \/ Summary
    \/ ConfigGet \/ ConfigUpdate \/ CreateTables \/ ClearAllTasks

Spec == Init /\ [][Next]_vars

\* ------------------------------------------------------------ properties
\* the task the last request named, as get_task_by_id reads it now and as it
\* read before the request
TaskNow == get_task_by_id(DB, last.id)
TaskBefore == get_task_by_id(pre, last.id)
UpdatedExisting == last.op = "update" /\ last.id \in DOMAIN pre.tasks
CreatedOk == last.op = "create" /\ last.result.status = "Ok"
SeqToSet(s) == {s[i] : i \in DOMAIN s}

\* C1: after update_task(id, req) on an existing task, get_task_by_id(id)
\* shows every field req supplies (title, type, priority, status, story
\* points, description) with the supplied value.
C1_UpdateShowsSuppliedFields ==
    UpdatedExisting =>
        LET t == Unwrap(TaskNow)
            r == last.request
        IN /\ IsSome(r.title) => t.title = Unwrap(r.title)
           /\ IsSome(r.type) => t.type = Unwrap(r.type)
           /\ IsSome(r.priority) => t.priority = Unwrap(r.priority)
           /\ IsSome(r.status) => t.status = Unwrap(r.status)
           /\ IsSome(r.story_points) => t.story_points = Unwrap(r.story_points)
           /\ IsSome(r.description) => t.description = Unwrap(r.description)

\* C2: create is atomic over its five writes: when create_task returns an
\* error, storage holds no task row, checklist item or edge for the new id.
C2_CreateAtomic ==
    (last.op = "create" /\ last.result.status = "Err") =>
        /\ last.id \notin DOMAIN tasks
        /\ \A r \in checklist_items : r.task_id # last.id
        /\ \A e \in task_dependencies \cup task_blocks :
              e.task_id # last.id /\ e.related_id # last.id

\* C3: when create_task succeeds, get_task_by_id on the returned id yields a
\* task equal to the request in every supplied field (title, type, priority,
\* status, story points, sprint, epic, description, assignee, thumbnail,
\* checklist texts and completed flags, dependency and block id sets), with
\* created_at = updated_at; it is the task create_task returned.
C3_CreateReadBack ==
    CreatedOk =>
        /\ TaskNow # None
        /\ LET t == Unwrap(TaskNow)
               r == last.request
               same(items, wanted) ==
                   /\ Len(items) = Len(wanted)
                   /\ \A i \in 1..Len(wanted) :
                         /\ items[i].text = wanted[i].text
                         /\ items[i].completed = wanted[i].completed
           IN /\ last.result.value = t
              /\ t.id = last.id
              /\ t.title = r.title
              /\ t.type = r.type
              /\ t.priority = r.priority
              /\ t.status = r.status
              /\ t.story_points = r.story_points
              /\ t.sprint = r.sprint
              /\ t.epic = r.epic
              /\ t.description = r.description
              /\ t.assignee = r.assignee
              /\ t.thumbnail = r.thumbnail
              /\ same(t.acceptance_criteria, r.acceptance_criteria)
              /\ same(t.technical_tasks, r.technical_tasks)
              /\ t.dependencies = SeqToSet(r.dependencies)
              /\ t.blocks = SeqToSet(r.blocks)
              /\ t.created_at = t.updated_at

\* C3 witness: a create that succeeded for a request with optional fields
\* absent, a status stored under a two-word name, checklist items and edges.
C3_Witness ==
    /\ CreatedOk
    /\ last.request.status = "TaskStatus::InProgress"
    /\ last.request.story_points = None
    /\ last.request.dependencies # <<>>
    /\ last.request.technical_tasks # <<>>

\* C4: a task created with N acceptance-criteria items and M technical-task
\* items (with or without client-supplied ids) reads back with exactly N and
\* M items, each list in the order of the request.
C4_ChecklistCountAndOrder ==
    CreatedOk =>
        LET t == Unwrap(TaskNow)
            r == last.request
            inOrder(items, wanted) ==
                /\ Len(items) = Len(wanted)
                /\ \A i \in 1..Len(wanted) :
                      /\ items[i].text = wanted[i].text
                      /\ IsSome(items[i].id)
                      /\ IsSome(wanted[i].id) => items[i].id = wanted[i].id
        IN /\ inOrder(t.acceptance_criteria, r.acceptance_criteria)
           /\ inOrder(t.technical_tasks, r.technical_tasks)

\* C4 witness: a successful create with two items in one list, and one with
\* a client-supplied id next to a generated one in the other.
C4_Witness ==
    /\ CreatedOk
    /\ \/ Len(last.request.acceptance_criteria) = 2
       \/ /\ Len(last.request.technical_tasks) = 2
          /\ \E i \in 1..2 : IsSome(last.request.technical_tasks[i].id)

\* C5: update on an identifier that matches no task answers NotFound (404)
\* and leaves storage unchanged.
C5_UpdateUnknownIsNotFound ==
    (last.op = "update" /\ last.id \notin DOMAIN pre.tasks) =>
        /\ last.response.http = "404 NOT_FOUND"
        /\ DB = pre

\* C6: delete on an identifier with no matching task (the second of two
\* deletes of one id among them) answers NotFound (404), not success.
C6_DeleteUnknownIsNotFound ==
    (last.op = "delete" /\ last.id \notin DOMAIN pre.tasks) =>
        last.response.http = "404 NOT_FOUND"

\* C7: after delete_task(id) on an existing task, get_task_by_id(id) returns
\* no task, no checklist item has task_id = id, no dependency or block edge
\* has id as either endpoint, and id is in no other task's lists.
C7_DeleteCascades ==
    (last.op = "delete" /\ last.id \in DOMAIN pre.tasks) =>
        /\ TaskNow = None
        /\ \A r \in checklist_items : r.task_id # last.id
        /\ \A e \in task_dependencies \cup task_blocks :
              e.task_id # last.id /\ e.related_id # last.id
        /\ \A i \in DOMAIN tasks :
              /\ last.id \notin Unwrap(get_task_by_id(DB, i)).dependencies
              /\ last.id \notin Unwrap(get_task_by_id(DB, i)).blocks

\* C7 witness: the deleted task had checklist items and was named in the
\* dependencies and blocks of another task.
C7_Witness ==
    /\ last.op = "delete"
    /\ last.id \in DOMAIN pre.tasks
    /\ \E r \in pre.checklist_items : r.task_id = last.id
    /\ \E e \in pre.task_dependencies : e.related_id = last.id
    /\ \E e \in pre.task_blocks : e.related_id = last.id

\* the sort specifications the specification admits
AllowedSortColumns == {"title", "created_at", "updated_at", "priority", "status"}
AllowedSort(sort) ==
    /\ SplitNext(sort) \in AllowedSortColumns
    /\ SplitNth1(sort) \in {Some("asc"), Some("desc")}

\* C8: list with a sort specification outside the allow-list fails with
\* InvalidQuery, leaves every table unchanged, and the sort string does not
\* reach the query text.
C8_BadSortRejected ==
    (last.op = "list" /\ IsSome(last.request.sort)
       /\ ~AllowedSort(Unwrap(last.request.sort))) =>
        /\ last.result.status = "InvalidQuery"
        /\ DB = pre
        /\ ~Contains(last.query, SplitNext(Unwrap(last.request.sort)))

\* C9: update_task(id, req) leaves unchanged every field of the task that req
\* omits, its created_at and id, its checklists and relationship lists when
\* req omits them, and every row of every other task.
C9_UpdateFrame ==
    last.op = "update" =>
        /\ DOMAIN tasks = DOMAIN pre.tasks
        /\ \A i \in DOMAIN pre.tasks \ {last.id} : tasks[i] = pre.tasks[i]
        /\ {r \in checklist_items : r.task_id # last.id}
              = {r \in pre.checklist_items : r.task_id # last.id}
        /\ {e \in task_dependencies : e.task_id # last.id}
              = {e \in pre.task_dependencies : e.task_id # last.id}
        /\ {e \in task_blocks : e.task_id # last.id}
              = {e \in pre.task_blocks : e.task_id # last.id}
        /\ last.id \in DOMAIN pre.tasks =>
              LET t == Unwrap(TaskNow)
                  b == Unwrap(TaskBefore)
                  r == last.request
              IN /\ t.id = b.id
                 /\ t.created_at = b.created_at
                 /\ \A f \in {"title", "type", "priority", "status", "story_points",
                              "sprint", "epic", "description", "assignee",
                              "is_favorite", "thumbnail", "acceptance_criteria",
                              "technical_tasks", "dependencies", "blocks"} :
                       r[f] = None => t[f] = b[f]

\* C9 witness: an update that omits fields of a task that has checklist items
\* and edges, while another task exists.
C9_Witness ==
    /\ UpdatedExisting
    /\ last.request.description = None
    /\ last.request.acceptance_criteria = None
    /\ \E r \in pre.checklist_items : r.task_id = last.id
    /\ \E e \in pre.task_dependencies : e.task_id = last.id
    /\ \E i \in DOMAIN pre.tasks : i # last.id

\* C10: every update_task on an existing task sets its updated_at to the time
\* of the update, whichever fields the request contains; the clock being
\* strictly increasing, updated_at is then later than created_at, and in
\* every state updated_at >= created_at for every task.
C10_UpdateRefreshesTimestamp ==
    /\ UpdatedExisting =>
          /\ Unwrap(TaskNow).updated_at = clock
          /\ Unwrap(TaskNow).updated_at > Unwrap(TaskNow).created_at
    /\ \A i \in DOMAIN tasks :
          Unwrap(get_task_by_id(DB, i)).updated_at
             >= Unwrap(get_task_by_id(DB, i)).created_at

\* C10 witness: an update that supplies no field at all, on an existing task.
C10_Witness ==
    UpdatedExisting /\ last.request = NoUpdate

\* a successful list, and the ids of the tasks it returned
ListedOk == last.op = "list" /\ last.result.status = "Ok"
ListedIds == {last.result.value[k].id : k \in DOMAIN last.result.value}

\* whether text has part inside it, letters compared without case (the
\* storage engine's default comparison for LIKE)
ContainsNoCase(text, part) ==
    \E i \in 1..(Len(text) + 1) :
        /\ i + Len(part) - 1 <= Len(text)
        /\ \A k \in 1..Len(part) : Fold(Char(text, i + k - 1)) = Fold(Char(part, k))

\* the stored rows that satisfy every supplied filter
Satisfying(db, params) ==
    {i \in DOMAIN db.tasks :
        /\ IsSome(params.epic) => db.tasks[i].epic = params.epic
        /\ IsSome(params.status) => db.tasks[i].status = Unwrap(params.status)
        /\ IsSome(params.assignee) => db.tasks[i].assignee = params.assignee
        /\ IsSome(params.search) =>
              \/ ContainsNoCase(db.tasks[i].title, Unwrap(params.search))
              \/ ContainsNoCase(db.tasks[i].description, Unwrap(params.search))}

\* C11: get_tasks (no page limit) returns exactly the stored tasks that
\* satisfy all supplied filters at once: epic, stored status and assignee
\* equal to their filters, and the search string contained in the title or
\* the description; an absent filter excludes nothing.
C11_ListIsExactlyTheMatches ==
    (ListedOk /\ last.request.limit = None) =>
        /\ ListedIds = Satisfying(pre, last.request)
        /\ Len(last.result.value) = Cardinality(ListedIds)

\* the whole filtered, sorted result of the last list request
FullResult == get_tasks(pre, [last.request EXCEPT !.limit = None, !.offset = None]).result.value

C13_DefaultSortUpdatedDesc ==
    (ListedOk /\ last.request.sort = None) =>
        \A k \in 1..(Len(last.result.value) - 1) :
            last.result.value[k].updated_at >= last.result.value[k + 1].updated_at

\* C13 witness: a list without sort that returned two tasks with different
\* updated_at.
C13_Witness ==
    /\ ListedOk
    /\ last.request.sort = None
    /\ Len(last.result.value) = 2
    /\ last.result.value[1].updated_at # last.result.value[2].updated_at

\* a served analytics summary, and the stored rows it was computed from
Summarised == last.op = "summary" /\ last.result.status = "Ok"
Rowset == DOMAIN pre.tasks
DoneRows == {i \in Rowset : pre.tasks[i].status = "Done"}
PointedRows == {i \in Rowset : IsSome(pre.tasks[i].story_points)}

\* C14: get_completion_rate is done / total * 100 for a non-empty task set
\* (50 for two Done out of four), 0 for the empty set, and never the result
\* of a division by zero.
C14_CompletionRate ==
    Summarised =>
        LET rate == last.result.value.completion_rate
        IN /\ rate.den # 0
           /\ IF Rowset = {} THEN rate.num = 0
              ELSE rate.num * Cardinality(Rowset) = Cardinality(DoneRows) * 100 * rate.den

\* C14 witness: the rate of 50 over two tasks one of which is Done.
C14_Witness ==
    /\ Summarised
    /\ Cardinality(Rowset) = 2
    /\ Cardinality(DoneRows) = 1
    /\ last.result.value.completion_rate.num = 50 * last.result.value.completion_rate.den

\* C15: get_average_story_points is the sum of the story points divided by
\* the number of tasks that have story points; tasks without story points
\* count in neither; it is 0 when no task has story points.
C15_AverageStoryPoints ==
    Summarised =>
        LET avg == last.result.value.average_story_points
        IN /\ avg.den # 0
           /\ IF PointedRows = {} THEN avg.num = 0
              ELSE avg.num * Cardinality(PointedRows) = SumStoryPoints(pre, PointedRows) * avg.den

\* C15 witness: an average over one task with story points and one without.
C15_Witness ==
    /\ Summarised
    /\ PointedRows # {}
    /\ PointedRows # Rowset
    /\ last.result.value.average_story_points.num > 0

\* the sum of the counts of a grouping
RECURSIVE SumCounts(_, _)
SumCounts(f, S) ==
    IF S = {} THEN 0
    ELSE LET k == CHOOSE k \in S : TRUE IN f[k] + SumCounts(f, S \ {k})

\* a grouping has exactly the values of the column some task has, each with
\* the number of tasks that have it, and its counts sum to total
ExactGrouping(f, column, total) ==
    /\ DOMAIN f = {pre.tasks[i][column] : i \in Rowset}
    /\ \A v \in DOMAIN f : f[v] = Cardinality({i \in Rowset : pre.tasks[i][column] = v})
    /\ SumCounts(f, DOMAIN f) = total

\* C16: each of the groupings by status, type and priority holds the exact
\* count for every value some task has and no entry for any other value, and
\* its counts sum to get_task_count; over no tasks the three are empty and
\* the count is 0.
C16_Groupings ==
    Summarised =>
        LET sum == last.result.value
        IN /\ sum.total_tasks = Cardinality(Rowset)
           /\ ExactGrouping(sum.tasks_by_status, "status", sum.total_tasks)
           /\ ExactGrouping(sum.tasks_by_type, "task_type", sum.total_tasks)
           /\ ExactGrouping(sum.tasks_by_priority, "priority", sum.total_tasks)
           /\ Rowset = {} =>
                 /\ sum.total_tasks = 0
                 /\ DOMAIN sum.tasks_by_status = {}
                 /\ DOMAIN sum.tasks_by_type = {}
                 /\ DOMAIN sum.tasks_by_priority = {}

\* C16 witnesses: groupings over two tasks of different type, and over two
\* tasks of the same type and different status.
C16_Witness ==
    /\ Summarised
    /\ Cardinality(Rowset) = 2
    /\ \/ Cardinality(DOMAIN last.result.value.tasks_by_type) = 2
       \/ /\ Cardinality(DOMAIN last.result.value.tasks_by_type) = 1
          /\ Cardinality(DOMAIN last.result.value.tasks_by_status) = 2

\* the sprint labels that are set, not empty, and borne by a task that is not
\* Done
ActiveLabels ==
    {Unwrap(pre.tasks[i].sprint) : i \in
        {i \in Rowset \ DoneRows : IsSome(pre.tasks[i].sprint) /\ pre.tasks[i].sprint # Some("")}}

\* C17: get_active_sprints returns, each once, exactly the sprint labels that
\* are neither null nor empty and that at least one task whose status is not
\* Done has.
C17_ActiveSprints ==
    Summarised =>
        LET sprints == last.result.value.active_sprints
        IN /\ SeqToSet(sprints) = ActiveLabels
           /\ Len(sprints) = Cardinality(ActiveLabels)

\* C17 witnesses: a label shared by two tasks that are not Done is listed
\* once; a label only a Done task has is left out.
C17_Witness ==
    /\ Summarised
    /\ \/ /\ Cardinality(Rowset \ DoneRows) = 2
          /\ \A i \in Rowset : pre.tasks[i].sprint = Some("S1")
          /\ last.result.value.active_sprints = <<"S1">>
       \/ /\ \E i \in DoneRows : pre.tasks[i].sprint = Some("S1")
          /\ last.result.value.active_sprints = <<>>

\* the configuration of a fresh workspace
Defaults ==
    [workspace_name |-> "Taskdown Workspace",
     timezone |-> "UTC",
     date_format |-> "YYYY-MM-DD",
     features |-> [analytics |-> TRUE, realtime |-> FALSE,
                   webhooks |-> FALSE, custom_fields |-> FALSE],
     limits |-> [max_tasks |-> 10000, max_users |-> 100, api_rate_limit |-> 1000]]

\* C18: workspace_config holds exactly one row, with id 1, in every reachable
\* state, whatever create_tables re-runs, task operations, clear_all_tasks
\* and configuration requests came before; a get before any update returns
\* the defaults; a re-run of create_tables leaves the stored configuration
\* as it was.
C18_ConfigSingleton ==
    /\ DOMAIN workspace_config = {1}
    /\ (last.op = "config_get" /\ ~config_updated) => last.result = Ok(Defaults)
    /\ (last.op = "create_tables" /\ 1 \in DOMAIN pre.workspace_config) =>
           workspace_config = pre.workspace_config

\* C19: a configuration update that supplies some fields changes exactly
\* those: the get that follows returns the supplied values for them and the
\* previous values for all others.
C19_ConfigUpdateApplied ==
    (last.op = "config_update" /\ get_workspace_config(pre).status = "Ok") =>
        LET before == get_workspace_config(pre).value
            after == get_workspace_config(DB)
        IN /\ after.status = "Ok"
           /\ \A f \in DOMAIN before :
                 after.value[f] = IF f \in DOMAIN last.request THEN last.request[f]
                                  ELSE before[f]

\* a task operation or an analytics or configuration read that failed
Failed ==
    /\ last.op \in {"list", "get", "create", "update", "delete", "summary", "config_get"}
    /\ \/ last.result.status # "Ok"
       \/ last.op = "get" /\ last.result.value = None

\* C20: every failed task operation (list, get, create, update, delete) and
\* every failed analytics or configuration read answers with the structured
\* error shape, success = false with an error code and message, at every
\* entry point alike, never with a failure that has no body.
C20_StructuredErrors ==
    Failed =>
        /\ IsSome(last.response.body)
        /\ Unwrap(last.response.body).success = FALSE
        /\ IsSome(Unwrap(last.response.body).error)

\* ------------------------------------------- authentication: the backend
\* everything but the clock, the last request and the held session
TaskVars ==
    <<tasks, checklist_items, task_dependencies, task_blocks, uuids, pre,
      workspace_config, config_updated, running>>

\* the readings of the clock around the end of a 24 hour session
Instants == {0, Hours(24), Hours(24) + 1, Hours(24) + Leeway, Hours(24) + Leeway + 1}

NoCredentials ==
    [type |-> "api-key", token |-> None, username |-> None, password |-> None,
     custom_headers |-> None]

\* the credentials a client may POST to /api/auth/verify
Credentials ==
    { [NoCredentials EXCEPT !.token = Some("taskdown-api-key-12345")],
      [NoCredentials EXCEPT !.type = "bearer", !.token = Some("taskdown-api-key-12345")],
      [NoCredentials EXCEPT !.token = Some("taskdown-api-key-00000")],
      [NoCredentials EXCEPT !.username = Some("admin"), !.password = Some("admin")],
      [NoCredentials EXCEPT !.type = "basic", !.username = Some("admin"),
                            !.password = Some("admin")],
      [NoCredentials EXCEPT !.type = "basic", !.username = Some("admin"),
                            !.password = Some("Admin")],
      [NoCredentials EXCEPT !.type = "basic", !.username = Some("root"),
                            !.password = Some("admin")],
      [NoCredentials EXCEPT !.type = "basic", !.password = Some("admin")],
      [NoCredentials EXCEPT !.type = "basic", !.token = Some("taskdown-api-key-12345")],
      [NoCredentials EXCEPT !.type = "custom",
                            !.custom_headers = Some("X-Auth-Token" :> "custom-token-abc123")],
      [NoCredentials EXCEPT !.type = "custom",
                            !.custom_headers = Some("X-Auth-Token" :> "taskdown-api-key-12345")],
      [NoCredentials EXCEPT !.type = "custom",
                            !.custom_headers = Some("X-Api-Key" :> "custom-token-abc123")],
      [NoCredentials EXCEPT !.type = "custom", !.token = Some("custom-token-abc123")],
      [NoCredentials EXCEPT !.type = "oauth", !.token = Some("taskdown-api-key-12345")] }

\* the authorization headers a client may send: none, other schemes, texts
\* that are no token, a token signed with another secret, and the held
\* session token as issued, without or with a misspelt prefix, and altered
AuthorizationHeaders ==
    { None,
      Some("Basic YWRtaW46YWRtaW4="),
      Some("Bearer "),
      Some("Bearer taskdown-api-key-12345"),
      Some("Bearer " \o encode(Claims("admin-user", "admin", <<"read", "write", "admin">>,
                                       24, clock), "another-secret")) }
    \cup (IF auth = None THEN {}
          ELSE LET token == Unwrap(Unwrap(auth).session_token)
               IN { Some("Bearer " \o token), Some(token), Some("bearer " \o token),
                    Some("Bearer " \o token \o "x") })

\* POST /api/auth/verify
AuthVerify ==
    \E credentials \in Credentials :
        LET r == authenticate_request(credentials, clock)
        IN /\ auth' = IF r.status = "Ok" THEN Some(r.value) ELSE auth
           /\ last' = [op |-> "auth_verify", id |-> NoSuchTask, request |-> credentials,
                       result |-> r, response |-> auth_verify_handler(r), query |-> ""]
           /\ UNCHANGED <<clock, TaskVars>>

\* GET /api/auth/status
AuthStatus ==
    \E header \in AuthorizationHeaders :
        LET r == extract_auth_claims(header, clock)
        IN /\ last' = [op |-> "auth_status", id |-> NoSuchTask, request |-> header,
                       result |-> r, response |-> auth_status_handler(r), query |-> ""]
           /\ UNCHANGED <<clock, auth, TaskVars>>

\* time passes
Tick ==
    \E now \in Instants :
        /\ now > clock
        /\ clock' = now
        /\ last' = [op |-> "tick", id |-> NoSuchTask, request |-> None,
                    result |-> Ok(Unit), response |-> None, query |-> ""]
        /\ UNCHANGED <<auth, TaskVars>>

AuthNext == AuthVerify \/ AuthStatus \/ Tick

AuthSpec == Init /\ [][AuthNext]_vars

\* credentials the backend is to accept
ValidCredentials(c) ==
    \/ c.type \in {"api-key", "bearer"} /\ c.token = Some("taskdown-api-key-12345")
    \/ c.type = "basic" /\ c.username = Some("admin") /\ c.password = Some("admin")
    \/ /\ c.type = "custom"
       /\ IsSome(c.custom_headers)
       /\ "X-Auth-Token" \in DOMAIN Unwrap(c.custom_headers)
       /\ Unwrap(c.custom_headers)["X-Auth-Token"] = "custom-token-abc123"

\* C21: authenticate_request returns an authenticated result with a session
\* token and an expiry exactly when the credentials are of type api-key or
\* bearer with the valid API key, of type basic with the demo username and
\* password, or of type custom with the valid X-Auth-Token header, and an
\* error otherwise; basic yields the permissions read, write, admin and the
\* other two read, write.
C21_AuthenticateRequest ==
    last.op = "auth_verify" =>
        /\ last.result.status = "Ok" <=> ValidCredentials(last.request)
        /\ last.result.status # "Ok" => last.result = Err
        /\ last.result.status = "Ok" =>
              /\ last.result.value.authenticated
              /\ IsSome(last.result.value.session_token)
              /\ IsSome(last.result.value.expires_at)
              /\ last.result.value.permissions =
                     IF last.request.type = "basic" THEN <<"read", "write", "admin">>
                     ELSE <<"read", "write">>

\* C21 witness: basic credentials accepted with the admin permission.
C21_Witness ==
    /\ last.op = "auth_verify"
    /\ last.request.type = "basic"
    /\ last.result.status = "Ok"
    /\ last.result.value.permissions = <<"read", "write", "admin">>

\* C22: extract_auth_claims returns claims exactly when the header is
\* "Bearer " followed by a token that verifies, so the session token a
\* successful authenticate_request issued is accepted until it expires, with
\* the permissions it was issued with; for any other header it returns no
\* claims and never an error, and the status response is then
\* authenticated = false with no token, no expiry and no permissions.
C22_ExtractAuthClaims ==
    last.op = "auth_status" =>
        /\ last.result.status = "Ok"
        /\ IsSome(last.result.value) <=>
              /\ IsSome(last.request)
              /\ StartsWith(Unwrap(last.request), "Bearer ")
              /\ verify_token(SubSeq(Unwrap(last.request), 8, Len(Unwrap(last.request))),
                              clock).status = "Ok"
        /\ ( /\ IsSome(auth)
             /\ last.request = Some("Bearer " \o Unwrap(Unwrap(auth).session_token))
             /\ clock <= Unwrap(Unwrap(auth).expires_at) ) =>
              /\ IsSome(last.result.value)
              /\ Unwrap(last.result.value).permissions = Unwrap(auth).permissions
        /\ last.result.value = None =>
              last.response = ApiSuccess(AuthResponse(FALSE, None, None, <<>>))

\* C22 witnesses: the held session token accepted at the instant it expires,
\* and the same token refused once the leeway is over.
C22_Witness ==
    /\ last.op = "auth_status"
    /\ IsSome(auth)
    /\ last.request = Some("Bearer " \o Unwrap(Unwrap(auth).session_token))
    /\ \/ /\ clock = Unwrap(Unwrap(auth).expires_at)
          /\ clock > 0
          /\ IsSome(last.result.value)
       \/ /\ clock > Unwrap(Unwrap(auth).expires_at)
          /\ last.result.value = None

\* ------------------------------------ authentication: Cloudflare variant
\* the credentials a client may POST to the Cloudflare /api/auth/verify
CfCredentials ==
    { [NoCredentials EXCEPT !.type = "password", !.username = Some("admin"),
                            !.password = Some("admin123")],
      [NoCredentials EXCEPT !.type = "password", !.username = Some("user"),
                            !.password = Some("user123")],
      [NoCredentials EXCEPT !.type = "password", !.username = Some("user"),
                            !.password = Some("admin123")],
      [NoCredentials EXCEPT !.type = "password", !.username = Some("admin")],
      [NoCredentials EXCEPT !.type = "api_key", !.token = Some("any-key")],
      [NoCredentials EXCEPT !.type = "api_key"],
      [NoCredentials EXCEPT !.type = "basic", !.username = Some("admin"),
                            !.password = Some("admin123")] }

\* user ids and usernames of direct calls of create_session_token
UserIds == {"user123", "user_7"}
Usernames == {"testuser", "admin"}

\* the authorization headers a client may send to a task endpoint: the held
\* session token, tokens made up by the client, texts that are no token
CfAuthorizationHeaders ==
    { None,
      Some("Basic YWRtaW46YWRtaW4xMjM="),
      Some("Bearer invalid"),
      Some("Bearer "),
      Some("Bearer session_incomplete"),
      Some("Bearer session_user123_testuser"),
      Some("Bearer session_user123_testuser_soon"),
      Some("Bearer session_user123_test_user_86400"),
      Some("Bearer token_user123_testuser_86400"),
      Some("Bearer session_user123_testuser_-5"),
      Some("Bearer session_user123_testuser_0"),
      Some("Bearer session_user123_admin_86400") }
    \cup (IF auth = None THEN {}
          ELSE { Some("Bearer " \o Unwrap(Unwrap(auth).session_token)),
                 Some(Unwrap(Unwrap(auth).session_token)) })

\* POST /api/auth/verify
CfAuthVerify ==
    \E credentials \in CfCredentials :
        LET r == cf_auth_verify_handler(credentials, clock)
        IN /\ auth' = IF IsSome(r.session) THEN r.session ELSE auth
           /\ last' = [op |-> "cf_auth_verify", id |-> NoSuchTask, request |-> credentials,
                       result |-> IF IsSome(r.session) THEN Ok(Unwrap(r.session)) ELSE Err,
                       response |-> r.response, query |-> ""]
           /\ UNCHANGED <<clock, TaskVars>>

\* a call of create_session_token
CfCreateSession ==
    \E user_id \in UserIds, username \in Usernames :
        LET session == [session_token |-> Some(create_session_token(user_id, username, clock)),
                        user_id |-> user_id, username |-> username,
                        expires_at |-> Some(clock + Hours(session_duration_hours)),
                        permissions |-> get_user_permissions(username)]
        IN /\ auth' = Some(session)
           /\ last' = [op |-> "cf_create_session", id |-> NoSuchTask,
                       request |-> <<user_id, username>>, result |-> Ok(session),
                       response |-> None, query |-> ""]
           /\ UNCHANGED <<clock, TaskVars>>

\* a request to a task endpoint, up to its authenticate_request
CfAuthenticate ==
    \E header \in CfAuthorizationHeaders :
        /\ last' = [op |-> "cf_authenticate", id |-> NoSuchTask, request |-> header,
                    result |-> cf_authenticate_request(header, clock),
                    response |-> None, query |-> ""]
        /\ UNCHANGED <<clock, auth, TaskVars>>

CfAuthNext == CfAuthVerify \/ CfCreateSession \/ CfAuthenticate \/ Tick

CfAuthSpec == Init /\ [][CfAuthNext]_vars

\* C23: verify_session_token applied to the token create_session_token
\* returned for a user id and a username succeeds before the expiry, with
\* sub = user id and username = username; so do the tokens that
\* auth_verify_handler issues, which authenticate_request on the task
\* endpoints then accepts.
C23_SessionTokenRoundTrip ==
    (IsSome(auth) /\ clock <= Unwrap(Unwrap(auth).expires_at)) =>
        LET token == Unwrap(Unwrap(auth).session_token)
        IN /\ verify_session_token(token, clock).status = "Ok"
           /\ verify_session_token(token, clock).value.sub = Unwrap(auth).user_id
           /\ verify_session_token(token, clock).value.username = Unwrap(auth).username
           /\ cf_authenticate_request(Some("Bearer " \o token), clock).status = "Ok"

\* a text of the form session_<id>_<username>_<integer expiry>, and its expiry
WellFormed(token) ==
    /\ StartsWith(token, "session_")
    /\ Len(Split(token, "_")) = 4
    /\ IsSome(parse(Split(token, "_")[4]))
Expiry(token) == Unwrap(parse(Split(token, "_")[4]))

\* the token of the last request to a task endpoint
Presented == Unwrap(extract_auth_header(last.request))

\* C24: verify_session_token returns an error for every token whose expiry
\* is earlier than the current time and for every token that is not of the
\* form session_<id>_<username>_<integer expiry>; as time never goes back, an
\* expired token is not accepted at any later time.
C24_ExpiredOrMalformedRejected ==
    /\ [](( /\ last.op = "cf_authenticate"
            /\ IsSome(extract_auth_header(last.request))
            /\ ~WellFormed(Presented) \/ Expiry(Presented) < clock )
          => last.result = Err)
    /\ [][clock' >= clock]_vars

\* C24 witnesses: a well-formed token accepted at the instant of its expiry,
\* refused at a later instant.
C24_Witness ==
    /\ last.op = "cf_authenticate"
    /\ IsSome(extract_auth_header(last.request))
    /\ WellFormed(Presented)
    /\ Expiry(Presented) > 0
    /\ \/ Expiry(Presented) = clock /\ last.result.status = "Ok"
       \/ Expiry(Presented) < clock /\ last.result = Err

\* ------------------------------------------------- referential integrity
\* C25: in every reachable state every checklist item's task_id and both
\* endpoints of every dependency edge and every block edge identify an
\* existing task: a create whose dependencies or blocks name a task that does
\* not exist stores no such edge, and no sequence of create, update, delete
\* and clear_all_tasks leaves an orphaned child row.
C25_NoOrphans ==
    /\ \A r \in checklist_items : r.task_id \in DOMAIN tasks
    /\ \A e \in task_dependencies \cup task_blocks :
          e.task_id \in DOMAIN tasks /\ e.related_id \in DOMAIN tasks

\* C25 witnesses: a create that named a task that does not exist, after which
\* the edges written before it are there; a delete of a task that other rows
\* referred to.
C25_Witness ==
    \/ /\ last.op = "create"
       /\ NoSuchTask \in RelatedIds(last.request)
       /\ task_blocks # {}
    \/ /\ last.op \in {"delete", "clear_all_tasks"}
       /\ pre.checklist_items # {}
       /\ \E e \in pre.task_dependencies \cup pre.task_blocks : e.related_id \notin DOMAIN tasks

\* ------------------------------------------------ stored enum columns
\* texts an enum column may hold: the Debug names of its enum, the serde name
\* of a renamed variant, another spelling and texts that name nothing
StoredTexts(variants) ==
    {DebugFmt(v) : v \in variants} \cup {"In Progress", "task", "", "Urgent"}

\* a row of the tasks table with the given enum columns
RowWith(task_type, priority, status) ==
    [title |-> "Alpha", task_type |-> task_type, priority |-> priority, status |-> status,
     story_points |-> None, sprint |-> None, epic |-> None, description |-> "",
     assignee |-> None, is_favorite |-> Some(FALSE), thumbnail |-> None,
     created_at |-> to_rfc3339(0), updated_at |-> to_rfc3339(0)]

\* enum values written as create_task writes them and read back
StoreEnums ==
    \E type \in TaskTypes, priority \in Priorities, status \in TaskStatuses :
        /\ last' = [op |-> "store_enums", id |-> 1,
                    request |-> [type |-> type, priority |-> priority, status |-> status],
                    result |-> Ok(TaskFromRow(1, RowWith(DebugFmt(type), DebugFmt(priority),
                                                         DebugFmt(status)))),
                    response |-> None, query |-> ""]
        /\ UNCHANGED <<clock, auth, TaskVars>>

\* a row with any texts in its enum columns read
ReadRow ==
    \E task_type \in StoredTexts(TaskTypes), priority \in StoredTexts(Priorities),
       status \in StoredTexts(TaskStatuses) :
        /\ last' = [op |-> "read_row", id |-> 1,
                    request |-> RowWith(task_type, priority, status),
                    result |-> Ok(TaskFromRow(1, RowWith(task_type, priority, status))),
                    response |-> None, query |-> ""]
        /\ UNCHANGED <<clock, auth, TaskVars>>

RowNext == StoreEnums \/ ReadRow

RowSpec == Init /\ [][RowNext]_vars

\* the texts that name a variant of an enum
Names(variants) == {DebugFmt(v) : v \in variants}

\* C27: storing an enum value as its Debug name and reading it back through
\* From<TaskRow> is the identity for every TaskType, Priority and TaskStatus;
\* a stored text that names no variant is read as type Task, priority Medium
\* and status Done.
C27_EnumRoundTrip ==
    /\ last.op = "store_enums" =>
          /\ last.result.value.type = last.request.type
          /\ last.result.value.priority = last.request.priority
          /\ last.result.value.status = last.request.status
    /\ last.op = "read_row" =>
          /\ last.request.task_type \notin Names(TaskTypes) =>
                last.result.value.type = "TaskType::Task"
          /\ last.request.priority \notin Names(Priorities) =>
                last.result.value.priority = "Priority::Medium"
          /\ last.request.status \notin Names(TaskStatuses) =>
                last.result.value.status = "TaskStatus::Done"

\* C27 witnesses: the renamed variant InProgress stored and read back, and a
\* row of three texts that name nothing.
C27_Witness ==
    \/ /\ last.op = "store_enums"
       /\ last.request.status = "TaskStatus::InProgress"
       /\ last.result.value.status = "TaskStatus::InProgress"
    \/ /\ last.op = "read_row"
       /\ last.request.task_type = "Urgent"
       /\ last.request.priority = "task"
       /\ last.request.status = "In Progress"
       /\ last.result.value.status = "TaskStatus::Done"

\* ------------------------------------------------ saves of one collection
\* the item lists and related-id lists a save may be given
SavedItems ==
    { <<>>,
      <<Item(None, "n1", FALSE)>>,
      <<Item(Some(ClientId(1)), "k1", TRUE), Item(None, "n2", FALSE)>>,
      <<Item(Some(ClientId(3)), "k3", FALSE)>> }
SavedRelatedIds == { <<>>, <<1>>, <<2>>, <<2, 1>>, <<NoSuchTask>> }

\* save_checklist_items on a stored task
SaveChecklist ==
    \E task_id \in DOMAIN tasks, items \in SavedItems,
       item_type \in {"acceptance_criteria", "technical_tasks"} :
        /\ LET r == save_checklist_items(DB, uuids.item, task_id, items, item_type)
           IN /\ Store(r.db)
              /\ uuids' = [uuids EXCEPT !.item = r.n_item]
              /\ Served("save_checklist_items", task_id,
                        [items |-> items, item_type |-> item_type],
                        IF r.ok THEN Ok(Unit) ELSE Err, None, "")
        /\ UNCHANGED <<clock, config_updated>>

\* save_task_relationships on a stored task
SaveRelationships ==
    \E task_id \in DOMAIN tasks, related_ids \in SavedRelatedIds,
       table_name \in {"task_dependencies", "task_blocks"} :
        /\ LET r == save_task_relationships(DB, task_id, related_ids, table_name)
           IN /\ Store(r.db)
              /\ Served("save_task_relationships", task_id,
                        [related_ids |-> related_ids, table_name |-> table_name],
                        IF r.ok THEN Ok(Unit) ELSE Err, None, "")
        /\ UNCHANGED <<uuids, clock, config_updated>>

\* a save is applied to tables that create_task calls have filled
Filling == last.op \in {"init", "create"}

SaveNext ==
    \/ Filling /\ Create
    \/ Filling /\ SaveChecklist
    \/ Filling /\ SaveRelationships

SaveSpec == Init /\ [][SaveNext]_vars

\* the rows of one task and one category, and the edges of one task in one table
ItemsOf(db, task_id, item_type) ==
    {r \in db.checklist_items : r.task_id = task_id /\ r.item_type = item_type}
EdgesOf(db, task_id, table_name) == {e \in db[table_name] : e.task_id = task_id}
OtherTable(table_name) ==
    IF table_name = "task_blocks" THEN "task_dependencies" ELSE "task_blocks"

\* C30: saving one child collection replaces only that collection:
\* save_checklist_items changes only the rows of that task and that category
\* and save_task_relationships only that task's outgoing edges in that table;
\* the other category, the other edge table, edges from other tasks and all
\* children of other tasks stay as they were. A saved item without an id gets
\* a fresh id and a saved item with an id keeps it.
C30_SaveReplacesOneCollection ==
    /\ last.op = "save_checklist_items" =>
          /\ checklist_items \ ItemsOf(DB, last.id, last.request.item_type)
                = pre.checklist_items \ ItemsOf(pre, last.id, last.request.item_type)
          /\ tasks = pre.tasks
          /\ task_dependencies = pre.task_dependencies
          /\ task_blocks = pre.task_blocks
          /\ last.result.status = "Ok" =>
                /\ Cardinality(ItemsOf(DB, last.id, last.request.item_type))
                      = Len(last.request.items)
                /\ \A i \in DOMAIN last.request.items :
                      \E r \in ItemsOf(DB, last.id, last.request.item_type) :
                          /\ r.sort_order = i - 1
                          /\ r.text = last.request.items[i].text
                          /\ r.completed = last.request.items[i].completed
                          /\ IF IsSome(last.request.items[i].id)
                             THEN r.id = Unwrap(last.request.items[i].id)
                             ELSE \A old \in pre.checklist_items : old.id # r.id
    /\ last.op = "save_task_relationships" =>
          /\ DB[last.request.table_name] \ EdgesOf(DB, last.id, last.request.table_name)
                = pre[last.request.table_name]
                      \ EdgesOf(pre, last.id, last.request.table_name)
          /\ DB[OtherTable(last.request.table_name)]
                = pre[OtherTable(last.request.table_name)]
          /\ tasks = pre.tasks
          /\ checklist_items = pre.checklist_items
          /\ last.result.status = "Ok" =>
                EdgesOf(DB, last.id, last.request.table_name)
                   = {[task_id |-> last.id, related_id |-> last.request.related_ids[i]] :
                         i \in DOMAIN last.request.related_ids}

\* C30 witnesses: a save that replaced the items of one category of a task
\* that has items of the other category, another task has items too; a save
\* that replaced the outgoing edges of a task, or gave edges to a task that
\* an edge of another task points at.
C30_Witness ==
    \/ /\ last.op = "save_checklist_items"
       /\ last.result.status = "Ok"
       /\ Len(last.request.items) = 2
       /\ ItemsOf(pre, last.id, last.request.item_type) # {}
       /\ \E r \in checklist_items : r.task_id = last.id /\ r.item_type # last.request.item_type
       /\ \E r \in checklist_items : r.task_id # last.id
    \/ /\ last.op = "save_task_relationships"
       /\ last.result.status = "Ok"
       /\ EdgesOf(DB, last.id, last.request.table_name)
             # EdgesOf(pre, last.id, last.request.table_name)
       /\ \/ EdgesOf(pre, last.id, last.request.table_name) # {}
          \/ \E e \in DB[last.request.table_name] :
                e.task_id # last.id /\ e.related_id = last.id


\* ------------------------------------------- requests served concurrently
\* Every handler runs as its own task on the runtime and every statement is
\* its own transaction on the pool, so the statements of requests in flight
\* interleave. `running` holds the calls in flight: create_task, one reader
\* (get_tasks or get_task_by_id) and clear_all_tasks; delete_task is a single
\* statement. `exposed` are the ids a response has shown to a client, and
\* `requests` the request each id was created from.
StepRequests ==
    {[BaseCreate EXCEPT !.acceptance_criteria = <<Item(None, "ac1", FALSE)>>,
                        !.technical_tasks = <<Item(None, "tt1", TRUE)>>],
     [BaseCreate EXCEPT !.title = "Beta",
                        !.acceptance_criteria = <<Item(None, "ac2", FALSE)>>,
                        !.technical_tasks = <<Item(None, "tt2", FALSE)>>,
                        !.dependencies = <<1>>,
                        !.blocks = <<1>>]}

\* one statement takes effect
Execute(db) ==
    /\ tasks' = db.tasks
    /\ checklist_items' = db.checklist_items
    /\ task_dependencies' = db.task_dependencies
    /\ task_blocks' = db.task_blocks
    /\ workspace_config' = db.workspace_config
    /\ UNCHANGED <<pre, auth, config_updated>>

\* the ids of the tasks in a result of get_tasks or get_task_by_id
ShownIds(op, result) ==
    IF result.status # "Ok" THEN {}
    ELSE IF op = "create" THEN {result.value.id}
    ELSE {result.value[k].id : k \in DOMAIN result.value}

\* tasks_create_handler receives the request and calls create_task
CreateStart ==
    \E request \in StepRequests :
        /\ running.create = NotRunning
        /\ uuids.task < MaxTasks
        /\ clock < MaxClock
        /\ running' = [running EXCEPT
                         !.create = create_task_start(uuids, request, clock + 1),
                         !.requests = ((uuids.task + 1) :> request) @@ @]
        /\ uuids' = [uuids EXCEPT !.task = @ + 1]
        /\ clock' = clock + 1
        /\ Execute(DB)
        /\ UNCHANGED last

\* create_task executes its next statement; after the last one the handler
\* answers, unless the call panicked and the connection is dropped
CreateStep ==
    /\ running.create # NotRunning
    /\ LET r == create_task_step(DB, uuids.item, running.create)
       IN /\ Execute(r.db)
          /\ uuids' = [uuids EXCEPT !.item = r.n_item]
          /\ IF r.c.stage = "return"
             THEN /\ running' = [running EXCEPT
                                   !.create = NotRunning,
                                   !.exposed = @ \cup ShownIds("create", r.c.result)]
                  /\ last' = [op |-> "create", id |-> r.c.id,
                              request |-> r.c.request, result |-> r.c.result,
                              response |-> IF r.c.result = Panicked THEN None
                                           ELSE tasks_create_handler(r.c.result),
                              query |-> ""]
             ELSE /\ running' = [running EXCEPT !.create = r.c]
                  /\ UNCHANGED last
    /\ UNCHANGED clock

\* get_tasks or get_task_by_id executes its SELECT on the tasks table
ReadRows ==
    \E op \in {"list", "get"}, id \in running.exposed \cup {NoSuchTask} :
        /\ running.read = NotRunning
        /\ (op = "get") = (id # NoSuchTask)
        /\ running' = [running EXCEPT
                         !.read = [stage |-> "select_children", op |-> op, id |-> id,
                                   rows |-> tasks]]
        /\ Execute(DB)
        /\ UNCHANGED <<uuids, clock, last>>

\* the reader executes the SELECTs on the child tables for the rows it holds,
\* and its handler answers
ReadChildren ==
    /\ running.read # NotRunning
    /\ LET c == running.read
           db == [DB EXCEPT !.tasks = c.rows]
           result == IF c.op = "list" THEN get_tasks(db, NoParams).result
                     ELSE Ok(get_task_by_id(db, c.id))
       IN /\ last' = [op |-> c.op, id |-> c.id,
                      request |-> IF c.op = "list" THEN NoParams ELSE None,
                      result |-> result,
                      response |-> IF c.op = "list" THEN tasks_list_handler(result)
                                   ELSE tasks_get_handler(result),
                      query |-> ""]
          /\ running' = [running EXCEPT !.read = NotRunning,
                                        !.exposed = @ \cup ShownIds(c.op, result)]
    /\ Execute(DB)
    /\ UNCHANGED <<uuids, clock>>

\* DELETE /api/tasks/:id for an id a client has seen
DeleteExposed ==
    \E id \in running.exposed :
        /\ LET r == delete_task(DB, id)
           IN /\ Execute(r.db)
              /\ last' = [op |-> "delete", id |-> id, request |-> None,
                          result |-> r.result,
                          response |-> tasks_delete_handler(r.result), query |-> ""]
        /\ UNCHANGED <<uuids, clock, running>>

\* clear_all_tasks executes its next statement
ClearStep ==
    /\ Execute(clear_all_tasks_step(DB, running.clear + 1))
    /\ IF running.clear + 1 = Len(ClearStatements)
       THEN /\ running' = [running EXCEPT !.clear = 0]
            /\ last' = [op |-> "clear_all_tasks", id |-> NoSuchTask, request |-> None,
                        result |-> Ok(Unit), response |-> None, query |-> ""]
       ELSE /\ running' = [running EXCEPT !.clear = @ + 1]
            /\ UNCHANGED last
    /\ UNCHANGED <<uuids, clock>>

StepNext ==
    \/ CreateStart \/ CreateStep \/ ReadRows \/ ReadChildren
    \/ DeleteExposed \/ ClearStep

StepSpec == Init /\ [][StepNext]_vars


\* the position of a stage in the text of create_task
StageIndex(stage) == CHOOSE k \in DOMAIN Stages : Stages[k] = stage

\* the call of create_task in flight is the one that writes rows of task id
\* and is at the given stage
Writing(id, stage) ==
    /\ running.create # NotRunning
    /\ running.create.id = id
    /\ running.create.stage = stage

\* C26: within one create_task the main row is written first and the child
\* rows follow in the order acceptance criteria, technical tasks,
\* dependencies, blocks: every step of the call stays at its stage or moves
\* to a later one, each row is inserted at the stage of its table, and every
\* child row is inserted while the main row of its task is present, whatever
\* the other requests in flight do.
C26_MainRowThenChildrenInOrder ==
    [][/\ \A id \in DOMAIN tasks' \ DOMAIN tasks : Writing(id, "tasks")
       /\ \A r \in checklist_items' \ checklist_items :
              /\ r.task_id \in DOMAIN tasks
              /\ Writing(r.task_id, r.item_type)
       /\ \A e \in task_dependencies' \ task_dependencies :
              /\ e.task_id \in DOMAIN tasks
              /\ Writing(e.task_id, "task_dependencies")
       /\ \A e \in task_blocks' \ task_blocks :
              /\ e.task_id \in DOMAIN tasks
              /\ Writing(e.task_id, "task_blocks")
       /\ (running.create = NotRunning /\ running'.create # NotRunning)
              => running'.create.stage = "tasks"
       /\ (running.create # NotRunning /\ running'.create # NotRunning)
              => StageIndex(running'.create.stage) >= StageIndex(running.create.stage)
      ]_vars

\* a create_task that wrote a row to every one of the five tables has returned
C26_Witness ==
    /\ last.op = "create"
    /\ last.result.status = "Ok"
    /\ last.id \in DOMAIN tasks
    /\ \E r \in checklist_items : r.task_id = last.id /\ r.item_type = "acceptance_criteria"
    /\ \E r \in checklist_items : r.task_id = last.id /\ r.item_type = "technical_tasks"
    /\ \E e \in task_dependencies : e.task_id = last.id
    /\ \E e \in task_blocks : e.task_id = last.id


\* what a checklist of a request says, item by item
Said(items) == [k \in DOMAIN items |-> [text |-> items[k].text,
                                        completed |-> items[k].completed]]

\* a task as a reader returned it carries what its request created it with
Whole(task) ==
    LET request == running.requests[task.id]
    IN /\ Said(task.acceptance_criteria) = Said(request.acceptance_criteria)
       /\ Said(task.technical_tasks) = Said(request.technical_tasks)
       /\ task.dependencies = {request.dependencies[k] : k \in DOMAIN request.dependencies}
       /\ task.blocks = {request.blocks[k] : k \in DOMAIN request.blocks}

\* C28: a get_tasks or get_task_by_id that runs while create_task or
\* delete_task is in flight returns no partial aggregate: every task in its
\* result carries exactly the checklists and relationship lists it was
\* created with.
C28_ReadersSeeWholeAggregates ==
    (last.op \in {"list", "get"} /\ last.result.status = "Ok")
        => \A k \in DOMAIN last.result.value : Whole(last.result.value[k])

\* C29: create_task always completes with the created task or with an error,
\* never with a panic, also when the new task is deleted or all tasks are
\* cleared between its writes and its final re-read.
C29_CreateNeverPanics ==
    last.op = "create" => last.result.status \in {"Ok", "Err"}

====
